---- MODULE Spec2Model ----
(***************************************************************************)
(* patch-fixer: the line-by-line repair engine (fix_patch) and the hunk     *)
(* locator (capture_hunk, find_all_hunk_starts, find_hunk_start).           *)
(*                                                                          *)
(* Text is modelled at character level: a string is a sequence of           *)
(* one-character strings, so that strip(), startswith() and slicing are     *)
(* computed as the code computes them.  A patch line is a record whose      *)
(* field k names its lexical shape; match_line classifies it the way the    *)
(* ordered regular expressions do.                                          *)
(***************************************************************************)
EXTENDS Integers, Sequences, FiniteSets, TLC

(***************************************************************************)
(* Bounds of the explored inputs.                                           *)
(***************************************************************************)
MaxFileLen == 3
MaxHunks == 2
MaxBody == 2
MaxHint == 3
MaxEntries == 2
EntMaxFileLen == 1
EntMaxBody == 1
EntMaxHint == 0

(***************************************************************************)
(* Characters and strings.                                                  *)
(***************************************************************************)
Min(S) == CHOOSE x \in S : \A y \in S : x <= y
Max(S) == CHOOSE x \in S : \A y \in S : x >= y
Abs(n) == IF n < 0 THEN -n ELSE n

\* characters removed by str.strip() with no argument
Whitespace == {" ", "\t", "\n", "\r"}

Drop(s, n) == IF n >= Len(s) THEN <<>> ELSE SubSeq(s, n + 1, Len(s))
Take(s, n) == IF n >= Len(s) THEN s ELSE SubSeq(s, 1, n)

sub_kept(s, keep) == IF keep = {} THEN <<>> ELSE SubSeq(s, Min(keep), Max(keep))
strip(s) == sub_kept(s, {i \in 1..Len(s) : s[i] \notin Whitespace})

\* str.lstrip(" ")
lstrip_from(s, keep) == IF keep = {} THEN <<>> ELSE SubSeq(s, Min(keep), Len(s))
lstrip_space(s) == lstrip_from(s, {i \in 1..Len(s) : s[i] # " "})

\* str.rstrip("\n")
rstrip_to(s, keep) == IF keep = {} THEN <<>> ELSE SubSeq(s, 1, Max(keep))
rstrip_newline(s) == rstrip_to(s, {i \in 1..Len(s) : s[i] # "\n"})

startswith(s, c) == Len(s) > 0 /\ s[1] = c
endswith(s, t) == Len(s) >= Len(t) /\ SubSeq(s, Len(s) - Len(t) + 1, Len(s)) = t
isspace(s) == Len(s) > 0 /\ \A i \in 1..Len(s) : s[i] \in Whitespace

\* the text of the "no newline" marker, kept as one token of a string
EndMarker == "\\ No newline at end of file"
DevNull == <<"/", "d", "e", "v", "/", "n", "u", "l", "l">>

\* str.replace(c, d) for single characters
replace_char(s, c, d) == [i \in 1..Len(s) |-> IF s[i] = c THEN d ELSE s[i]]

(***************************************************************************)
(* utils.normalize_line on a string: [err, v].                              *)
(***************************************************************************)
check_core(core) ==
    IF \E n \in 1..Len(core) : core[n] = "\n" THEN [err |-> "ValueError", v |-> <<>>]
    ELSE IF \E n \in 1..Len(core) : core[n] = "\r" THEN [err |-> "BadCarriageReturn", v |-> <<>>]
    ELSE [err |-> "none", v |-> core \o <<"\n">>]

normalize_str(s) ==
    IF s = <<>> THEN [err |-> "none", v |-> <<"\n">>]
    ELSE IF endswith(s, <<"\n", "\r">>) THEN [err |-> "BadCarriageReturn", v |-> <<>>]
    ELSE check_core(IF endswith(s, <<"\r", "\n">>) THEN SubSeq(s, 1, Len(s) - 2)
                    ELSE IF endswith(s, <<"\r">>) THEN SubSeq(s, 1, Len(s) - 1)
                    ELSE IF endswith(s, <<"\n">>) THEN SubSeq(s, 1, Len(s) - 1)
                    ELSE s)

\* normalize_line on a patch line: a content line carries its whole text in s,
\* a header-shaped line carries its terminator in eol (its fields hold no
\* line feed or carriage return)
normalized(line, r) ==
    [err |-> r.err, v |-> IF line.k = "text" THEN [line EXCEPT !.s = r.v]
                          ELSE [line EXCEPT !.eol = r.v]]

normalize_line(line) ==
    normalized(line, normalize_str(IF line.k = "text" THEN line.s ELSE line.eol))

(***************************************************************************)
(* regex.match_line: the type of a line and its groups.                     *)
(***************************************************************************)
HasPrefix(p, c) == Len(p) > 2 /\ p[1] = c /\ p[2] = "/"

IsEndLine(s) == s = <<EndMarker>> \/ s = <<EndMarker, "\n">>

match_line(line) ==
    IF line.k = "diff" /\ HasPrefix(line.a, "a") /\ HasPrefix(line.b, "b")
    THEN [type |-> "DIFF_LINE", groups |-> <<line.a, line.b>>]
    ELSE IF line.k = "mode"
    THEN [type |-> "MODE_LINE", groups |-> <<line.mode>>]
    ELSE IF line.k = "index"
    THEN [type |-> "INDEX_LINE", groups |-> <<line.old, line.new>>]
    ELSE IF line.k = "similarity"
    THEN [type |-> "INDEX_LINE", groups |-> <<line.pct>>]
    ELSE IF line.k = "binary"
    THEN [type |-> "BINARY_LINE", groups |-> <<line.a, line.b>>]
    ELSE IF line.k = "rename_from"
    THEN [type |-> "RENAME_FROM", groups |-> <<line.path>>]
    ELSE IF line.k = "rename_to"
    THEN [type |-> "RENAME_TO", groups |-> <<line.path>>]
    ELSE IF line.k = "fstart" /\ (HasPrefix(line.path, "a") \/ line.path = DevNull)
    THEN [type |-> "FILE_HEADER_START", groups |-> <<line.path>>]
    ELSE IF line.k = "fend" /\ (HasPrefix(line.path, "b") \/ line.path = DevNull)
    THEN [type |-> "FILE_HEADER_END", groups |-> <<line.path>>]
    ELSE IF line.k = "hunk"
    THEN [type |-> "HUNK_HEADER", groups |-> <<line.old_start, line.context>>]
    ELSE IF line.k = "text" /\ IsEndLine(line.s)
    THEN [type |-> "END_LINE", groups |-> <<>>]
    ELSE [type |-> "None", groups |-> <<>>]

\* utils.split_ab: "./" + path[2:]
split_ab(groups) == <<<<".", "/">> \o Drop(groups[1], 2), <<".", "/">> \o Drop(groups[2], 2)>>

(***************************************************************************)
(* utils.fuzzy_line_similarity, as an exact fraction <<numerator,           *)
(* denominator>>.                                                           *)
(***************************************************************************)
count_char(s, c) == Cardinality({i \in 1..Len(s) : s[i] = c})
chars_of(s) == {s[i] : i \in 1..Len(s)}

RECURSIVE common_chars(_, _, _)
common_chars(cs, l1, l2) ==
    IF cs = {} THEN 0
    ELSE LET c == CHOOSE x \in cs : TRUE
             m1 == count_char(l1, c)
             m2 == count_char(l2, c)
         IN  (IF m1 < m2 THEN m1 ELSE m2) + common_chars(cs \ {c}, l1, l2)

similarity_of(l1, l2) ==
    IF Len(l1) = 0 /\ Len(l2) = 0 THEN <<1, 1>>
    ELSE IF l1 = l2 THEN <<1, 1>>
    ELSE IF Len(l1) = 0 \/ Len(l2) = 0 THEN <<0, 1>>
    ELSE <<2 * common_chars(chars_of(l1) \cap chars_of(l2), l1, l2), Len(l1) + Len(l2)>>

fuzzy_line_similarity(line1, line2) == similarity_of(strip(line1), strip(line2))

frac_less(x, y) == x[1] * y[2] < y[1] * x[2]
frac_add(x, y) == <<x[1] * y[2] + y[1] * x[2], x[2] * y[2]>>
\* the acceptance threshold 0.6 of find_hunk_start
FuzzyThreshold == <<3, 5>>

(***************************************************************************)
(* hunk.find_hunk_start: [err, idx].                                        *)
(***************************************************************************)
\* the lines one hunk line contributes to the context pattern
ctx_of_line(s) ==
    IF IsEndLine(s) THEN <<>>
    ELSE IF startswith(s, " ") THEN <<lstrip_space(s)>>
    ELSE IF startswith(s, "-") THEN <<Tail(s)>>
    ELSE IF isspace(s) \/ s = <<>> THEN <<s>>
    ELSE <<>>

RECURSIVE build_ctx(_)
build_ctx(context_lines) ==
    IF context_lines = <<>> THEN <<>>
    ELSE ctx_of_line(Head(context_lines).s) \o build_ctx(Tail(context_lines))

exact_at(ctx, original_lines, i) ==
    \A j \in 0..(Len(ctx) - 1) : strip(original_lines[i + j + 1]) = strip(ctx[j + 1])

RECURSIVE total_similarity(_, _, _, _)
total_similarity(ctx, original_lines, i, j) ==
    IF j >= Len(ctx) THEN <<0, 1>>
    ELSE frac_add(fuzzy_line_similarity(original_lines[i + j + 1], ctx[j + 1]),
                  total_similarity(ctx, original_lines, i, j + 1))

\* the better of the best match so far and position i with total similarity tot
fuzzy_better(best, i, tot, n) ==
    IF frac_less(best.score, <<tot[1], tot[2] * n>>)
       /\ frac_less(FuzzyThreshold, <<tot[1], tot[2] * n>>)
    THEN [score |-> <<tot[1], tot[2] * n>>, pos |-> i]
    ELSE best

\* the fuzzy loop from position i on: [score, pos] of the best match
RECURSIVE fuzzy_scan(_, _, _, _)
fuzzy_scan(ctx, original_lines, i, best) ==
    IF i > Len(original_lines) - Len(ctx) THEN best
    ELSE fuzzy_scan(ctx, original_lines, i + 1,
                    fuzzy_better(best, i, total_similarity(ctx, original_lines, i, 0), Len(ctx)))

fuzzy_result(best) ==
    IF frac_less(FuzzyThreshold, best.score) THEN [err |-> "none", idx |-> best.pos]
    ELSE [err |-> "MissingHunkError", idx |-> 0]

exact_result(exact, ctx, original_lines, fuzzy) ==
    IF exact # {} THEN [err |-> "none", idx |-> Min(exact)]
    ELSE IF fuzzy
    THEN fuzzy_result(fuzzy_scan(ctx, original_lines, 0, [score |-> <<0, 1>>, pos |-> 0]))
    ELSE [err |-> "MissingHunkError", idx |-> 0]

find_in(ctx, original_lines, fuzzy) ==
    IF ctx = <<>> THEN [err |-> "ValueError", idx |-> 0]
    ELSE exact_result({i \in 0..(Len(original_lines) - Len(ctx)) : exact_at(ctx, original_lines, i)},
                      ctx, original_lines, fuzzy)

find_hunk_start(context_lines, original_lines, fuzzy) ==
    find_in(build_ctx(context_lines), original_lines, fuzzy)

(***************************************************************************)
(* hunk.find_all_hunk_starts: [err, matches]; only MissingHunkError ends    *)
(* the loop, any other error leaves it.                                     *)
(***************************************************************************)
prepend(idx, rest) == [err |-> rest.err, matches |-> <<idx>> \o rest.matches]

RECURSIVE find_all_from(_, _, _, _)
RECURSIVE find_all_next(_, _, _, _, _)
\* a loop that goes on after the end of the occurrence found
find_all_skip(hunk_lines, search_lines, start, fuzzy, r) ==
    IF r.err = "MissingHunkError" THEN [err |-> "none", matches |-> <<>>]
    ELSE IF r.err # "none" THEN [err |-> r.err, matches |-> <<>>]
    ELSE prepend(start + r.idx,
                 find_all_from(hunk_lines, search_lines,
                               start + r.idx + Len(build_ctx(hunk_lines)), fuzzy))

\* the loop after one call of find_hunk_start: start += idx + 1
find_all_next(hunk_lines, search_lines, start, fuzzy, r) ==
    IF r.err = "MissingHunkError" THEN [err |-> "none", matches |-> <<>>]
    ELSE IF r.err # "none" THEN [err |-> r.err, matches |-> <<>>]
    ELSE prepend(start + r.idx, find_all_from(hunk_lines, search_lines, start + r.idx + 1, fuzzy))

find_all_from(hunk_lines, search_lines, start, fuzzy) ==
    find_all_next(hunk_lines, search_lines, start, fuzzy,
                  find_hunk_start(hunk_lines, Drop(search_lines, start), fuzzy))

find_all_hunk_starts(hunk_lines, search_lines, fuzzy) ==
    find_all_from(hunk_lines, search_lines, 0, fuzzy)

(***************************************************************************)
(* hunk.capture_hunk: [err, header, offset, last_hunk].                     *)
(***************************************************************************)
NoCount == -1
NoHeader == [k |-> "none"]

\* the first of the positions, whatever position is expected
first_position(positions, expected) == positions[1]

\* min(positions, key=lambda pos: abs(pos + 1 - expected)): the first of the
\* positions with the least distance
closest(positions, expected) ==
    positions[Min({n \in 1..Len(positions) :
                     \A m \in 1..Len(positions) :
                        Abs(positions[n] + 1 - expected) <= Abs(positions[m] + 1 - expected)})]

\* a count that takes every line of the hunk, whatever its first character
count_lines(lines, c) == Len(lines)
count_prefix(lines, c) == Cardinality({n \in 1..Len(lines) : startswith(lines[n].s, c)})

\* the condensed form drops a count of 1
format_header(old_start, old_count, new_start, new_count, hunk_context) ==
    [k |-> "hunk", old_start |-> old_start,
     old_count |-> IF old_count # 1 THEN old_count ELSE NoCount,
     new_start |-> new_start,
     new_count |-> IF new_count # 1 THEN new_count ELSE NoCount,
     context |-> hunk_context, eol |-> <<"\n">>]

\* the position chosen among the matches of one search, 1-based
choose_match(positions, expected_old_start) ==
    IF expected_old_start # 0 THEN closest(positions, expected_old_start) + 1
    ELSE positions[1] + 1

rebase(matches, search_index) == [n \in 1..Len(matches) |-> matches[n] + search_index]

\* the second search, from the start of the file: [err, old_start]
second_search(second, expected_old_start) ==
    IF second.err # "none" THEN [err |-> second.err, old_start |-> 0]
    ELSE IF second.matches = <<>> THEN [err |-> "MissingHunkError", old_start |-> 0]
    ELSE [err |-> "none", old_start |-> choose_match(second.matches, expected_old_start)]

\* the file-modification branch, given the result of the first search: [err, old_start]
first_search(first, current_hunk, original_lines, last_hunk, hunk_len, expected_old_start, fuzzy) ==
    IF first.err # "none" THEN [err |-> first.err, old_start |-> 0]
    ELSE IF first.matches # <<>>
    THEN [err |-> "none",
          old_start |-> choose_match(rebase(first.matches, last_hunk), expected_old_start)]
    ELSE second_search(find_all_hunk_starts(current_hunk,
                                            Take(original_lines, last_hunk + hunk_len), fuzzy),
                       expected_old_start)

search_old_start(current_hunk, original_lines, last_hunk, hunk_len, expected_old_start, fuzzy) ==
    first_search(find_all_hunk_starts(current_hunk, Drop(original_lines, last_hunk), fuzzy),
                 current_hunk, original_lines, last_hunk, hunk_len, expected_old_start, fuzzy)

\* errors.HunkErrorBase.format_hunk_for_error: the lines of the hunk handed to
\* the error that start with ' ' or '-'; each line of a hunk ends its own line
format_hunk_for_error(hunk_lines) ==
    SelectSeq(hunk_lines, LAMBDA l : startswith(l.s, " ") \/ startswith(l.s, "-"))

capture_fail(e, offset, last_hunk) ==
    [err |-> e, header |-> NoHeader, offset |-> offset, last_hunk |-> last_hunk]

capture_done(old_start, old_count, new_start, new_count, hunk_context, offset, last_hunk) ==
    [err |-> "none",
     header |-> format_header(old_start, old_count, new_start, new_count, hunk_context),
     offset |-> offset + (new_count - old_count),
     last_hunk |-> last_hunk + (old_start - last_hunk)]

\* the end of the file-modification branch, given the position found
capture_found(found, original_lines, offset, last_hunk, old_count, new_count, hunk_context) ==
    IF found.err # "none" THEN capture_fail(found.err, offset, last_hunk)
    ELSE IF found.old_start < last_hunk + 1
    THEN (IF last_hunk >= Len(original_lines)
          THEN capture_fail("IndexError", offset, last_hunk)
          ELSE capture_fail("OutOfOrderHunk", offset, last_hunk))
    ELSE capture_done(found.old_start, old_count,
                      IF new_count = 0 THEN 0 ELSE found.old_start + offset,
                      new_count, hunk_context, offset, last_hunk)

\* capture_hunk with no branch for a hunk of deletions only or additions only
capture_searched(current_hunk, original_lines, offset, last_hunk, expected_old_start, hunk_context, hunk_len, context_count, minus_count, plus_count, fuzzy) ==
    capture_found(search_old_start(current_hunk, original_lines, last_hunk, hunk_len,
                                   expected_old_start, fuzzy),
                  original_lines, offset, last_hunk,
                  context_count + minus_count, context_count + plus_count, hunk_context)

\* capture_hunk once the line counts are known
capture_counted(current_hunk, original_lines, offset, last_hunk, expected_old_start, hunk_context, hunk_len, context_count, minus_count, plus_count, fuzzy) ==
    IF minus_count = hunk_len
    THEN capture_done(1, context_count + minus_count, 0, context_count + plus_count,
                      hunk_context, offset, last_hunk)
    ELSE IF plus_count = hunk_len
    THEN capture_done(0, context_count + minus_count, 1, context_count + plus_count,
                      hunk_context, offset, last_hunk)
    ELSE capture_found(search_old_start(current_hunk, original_lines, last_hunk, hunk_len,
                                        expected_old_start, fuzzy),
                       original_lines, offset, last_hunk,
                       context_count + minus_count, context_count + plus_count, hunk_context)

capture_hunk(current_hunk, original_lines, offset, last_hunk, old_header, fuzzy) ==
    IF current_hunk = <<>> THEN capture_fail("EmptyHunk", offset, last_hunk)
    ELSE capture_counted(current_hunk, original_lines, offset, last_hunk,
                         IF old_header # <<>> THEN old_header[1] ELSE 0,
                         IF old_header # <<>> THEN old_header[2] ELSE <<>>,
                         IF IsEndLine(current_hunk[Len(current_hunk)].s)
                         THEN Len(current_hunk) - 1 ELSE Len(current_hunk),
                         count_prefix(current_hunk, " "),
                         count_prefix(current_hunk, "-"),
                         count_prefix(current_hunk, "+"),
                         fuzzy)

(***************************************************************************)
(* The file system, the arguments of fix_patch and the input.               *)
(***************************************************************************)
NameF == <<"f">>
NameG == <<"g">>
NameN == <<"n">>
Names == {NameF, NameG, NameN}
\* the directory given as `original` (directory mode)
Root == <<".">>
None == <<"None">>

a_path(name) == <<"a", "/">> \o name
b_path(name) == <<"b", "/">> \o name

\* the texts a reference line is drawn from
Texts == {<<"a">>, <<"b">>}

RECURSIVE SeqsUpTo(_, _)
SeqsUpTo(S, n) ==
    IF n = 0 THEN {<<>>}
    ELSE LET shorter == SeqsUpTo(S, n - 1)
         IN  shorter \cup {Append(s, x) : s \in {q \in shorter : Len(q) = n - 1}, x \in S}

File(lines) == [kind |-> "file", lines |-> lines]
\* a file and whether its last line ends with a line feed
FileEnding(lines, nl) == [kind |-> "file", lines |-> lines, nl |-> nl]
Missing == [kind |-> "missing", lines |-> <<>>]

VARIABLES
    fs,             \* name -> [kind, lines]: the tree under `original`
    opts,           \* the arguments of fix_patch; a hook is given (TRUE) or not
    lim,            \* the class of inputs the environment draws the patch from
    patch_lines,    \* the lines read so far; the current index i is their number
    state,          \* PatchState
    pc,             \* "loop": in the for loop; "done": returned; "raised": an exception left fix_patch
    err,            \* the exception that left fix_patch
    env,            \* where the input stands: entries, hunk headers of the entry, body lines, stage
    expect,         \* what handle_file_header_start read of the next line
    resolved,       \* the calls of capture_hunk made so far, with arguments and result
    proc            \* the process: its working directory, the calls of fix_patch it made

vars == <<fs, opts, lim, patch_lines, state, pc, err, env, expect, resolved, proc>>

\* PatchState.__init__
PatchState ==
    [fixed_lines |-> <<>>, current_hunk |-> <<>>, current_file |-> None,
     first_hunk |-> TRUE, offset |-> 0, last_hunk |-> 0, last_diff |-> 0,
     last_mode |-> 0, last_index |-> 0, file_start_header |-> FALSE,
     file_end_header |-> FALSE, look_for_rename |-> FALSE, missing_index |-> FALSE,
     binary_file |-> FALSE, current_hunk_header |-> <<>>, original_lines |-> <<>>,
     file_loaded |-> FALSE, similarity |-> 0]

\* the directories and the file of the tree, as paths from its root; fs is the
\* part of it under the working directory of the process
Top == <<"top">>
Repo == <<"top", "repo">>
TreeDirs == {<<>>, Top, Repo}
TreeFiles == {Repo \o NameF}
\* a process in the directory the patch is for, before it called fix_patch
InRepo == [cwd |-> Repo, calls |-> <<>>]

dir_mode == opts.original = Root
exists(name) == name \in DOMAIN fs /\ fs[name].kind # "missing"
is_file(name) == name \in DOMAIN fs /\ fs[name].kind = "file"
is_dir(name) == name \in DOMAIN fs /\ fs[name].kind = "dir"
\* read_file_with_fallback_encoding, each line then rstrip('\n')-ed
read_lines(name) == fs[name].lines

\* the lines handed to fix_patch
DiffLine(a, b) == [k |-> "diff", a |-> a_path(a), b |-> b_path(b), eol |-> <<"\n">>]
FileStart(path) == [k |-> "fstart", path |-> path, eol |-> <<"\n">>]
FileEnd(path) == [k |-> "fend", path |-> path, eol |-> <<"\n">>]
HunkHeader(old_start) == [k |-> "hunk", old_start |-> old_start, context |-> <<>>, eol |-> <<"\n">>]
Text(s) == [k |-> "text", s |-> s]
ModeLine(which) == [k |-> "mode", which |-> which, mode |-> "100644", eol |-> <<"\n">>]
IndexLine(old, new) == [k |-> "index", old |-> old, new |-> new, eol |-> <<"\n">>]
SimilarityLine(pct) == [k |-> "similarity", pct |-> pct, eol |-> <<"\n">>]
BinaryLine(a, b) == [k |-> "binary", a |-> a, b |-> b, eol |-> <<"\n">>]
RenameFrom(path) == [k |-> "rename_from", path |-> path, eol |-> <<"\n">>]
RenameTo(path) == [k |-> "rename_to", path |-> path, eol |-> <<"\n">>]

\* the text of a line that matches no pattern: a "--- path" or "+++ path" line
\* whose path has neither the prefix nor the value the pattern asks for
as_text(line) ==
    IF line.k = "fstart" THEN Text(<<"-", "-", "-", " ">> \o line.path \o line.eol)
    ELSE IF line.k = "fend" THEN Text(<<"+", "+", "+", " ">> \o line.path \o line.eol)
    ELSE line

BodyLines ==
    {Text(<<tag>> \o txt \o <<"\n">>) : tag \in {" ", "-"}, txt \in Texts}
        \cup {Text(<<"+", "x", "\n">>)}

\* the lines the environment may supply next
Offered ==
    LET name == env.name
        diffs == IF env.entries < lim.entries /\ (env.stage = "start" \/ (env.stage = "hunk" /\ lim.free))
                 THEN {DiffLine(n, n) : n \in lim.names} ELSE {}
        starts == IF env.stage = "diff"
                  THEN {FileStart(a_path(name))} \cup (IF lim.free THEN {FileStart(DevNull)} ELSE {})
                  ELSE {}
        ends == IF env.stage = "fstart" \/ (env.stage = "diff" /\ lim.free)
                THEN {FileEnd(b_path(name))} \cup (IF lim.free THEN {FileEnd(DevNull)} ELSE {})
                ELSE {}
        hunks == IF (env.stage = "fend" \/ (env.stage \in {"diff", "fstart"} /\ lim.free)
                        \/ env.stage = "hunk")
                    /\ env.hunks < lim.hunks
                 THEN {[HunkHeader(h) EXCEPT !.context = c] : h \in 0..lim.hint, c \in lim.contexts}
                 ELSE {}
        body == IF env.stage = "hunk" /\ env.body < lim.body THEN lim.lines ELSE {}
        all == diffs \cup starts \cup ends \cup hunks \cup body
    IN  IF expect = "any" THEN all
        ELSE {l \in all : match_line(l).type = "FILE_HEADER_END" /\ l.path # DevNull}

Options ==
    [original : {Root}, fuzzy : {FALSE}, add_newline : {FALSE}, strict : {FALSE},
     remove_binary : {FALSE}, pre_hunk_hook : {FALSE}, post_hunk_hook : {FALSE}]

InitCommon ==
    /\ opts \in Options
    /\ patch_lines = <<>>
    /\ state = PatchState
    /\ pc = "loop"
    /\ err = "none"
    /\ env = [entries |-> 0, hunks |-> 0, body |-> 0, stage |-> "start", name |-> None]
    /\ expect = "any"
    /\ resolved = <<>>
    /\ proc = InRepo

\* one file entry with its file headers in place and up to MaxHunks hunks
Init ==
    /\ InitCommon
    /\ \E c \in SeqsUpTo(Texts, MaxFileLen) :
           fs = [n \in Names |-> IF n = NameF THEN File(c) ELSE Missing]
    /\ lim = [entries |-> 1, hunks |-> MaxHunks, body |-> MaxBody, hint |-> MaxHint,
              names |-> {NameF}, free |-> FALSE, lines |-> BodyLines, contexts |-> {<<>>}]

(***************************************************************************)
(* The steps of fix_patch.  i is the index of the line being handled.       *)
(***************************************************************************)
i == Len(patch_lines)

append(st, line) == [st EXCEPT !.fixed_lines = Append(@, line)]

\* a hook that is given looks at the hunk and hands it back as it is.  The
\* pre-hunk hook is called before capture_hunk where a hunk header or the end
\* of the input closes a hunk, the post-hunk hook after capture_hunk returned
\* there; handle_diff_line calls neither
pre_hook_called(site) == site # "diff" /\ opts.pre_hunk_hook
post_hook_called(site, r) == site # "diff" /\ opts.post_hunk_hook /\ r.err = "none"

\* HunkErrorBase.file when MissingHunkError or OutOfOrderHunk leaves fix_patch:
\* the default of the constructor, or what add_file was given
UnknownFile == <<"(unknown file)">>
error_file(site, st) == IF site = "hunk" /\ opts.strict THEN UnknownFile ELSE st.current_file

\* the record of one call of capture_hunk
Call(site, st, fuzzy, r) ==
    [site |-> site, entry |-> env.entries, nth |-> env.hunks,
     hunk |-> st.current_hunk, original_lines |-> st.original_lines,
     offset |-> st.offset, last_hunk |-> st.last_hunk,
     old_header |-> st.current_hunk_header, file |-> st.current_file,
     fuzzy |-> fuzzy, res |-> r,
     pre_hook |-> pre_hook_called(site), post_hook |-> post_hook_called(site, r),
     error_file |-> error_file(site, st)]

\* an exception leaves fix_patch: nothing is returned
Raise(e) ==
    /\ pc' = "raised"
    /\ err' = e
    /\ state' = state

Continue(st) ==
    /\ pc' = "loop"
    /\ err' = err
    /\ state' = st

Read(line, stage) ==
    /\ pc = "loop"
    /\ patch_lines' = Append(patch_lines, line)
    /\ env' = IF stage = "diff"
              THEN [entries |-> env.entries + 1, hunks |-> 0, body |-> 0, stage |-> "diff",
                    name |-> Drop(line.a, 2)]
              ELSE IF stage = "hunk"
              THEN [env EXCEPT !.hunks = @ + 1, !.body = 0, !.stage = "hunk"]
              ELSE IF stage = "body"
              THEN [env EXCEPT !.body = @ + 1]
              ELSE [env EXCEPT !.stage = stage]
    /\ UNCHANGED <<fs, opts, lim, proc>>

\* handle_diff_line: the hunk pending from the previous entry is put out
diff_flushed(st, r) ==
    [st EXCEPT !.offset = r.offset, !.last_hunk = r.last_hunk,
               !.fixed_lines = @ \o <<r.header>> \o st.current_hunk,
               !.current_hunk = <<>>]

\* handle_diff_line: the new diff is put out and the per-file state reset
diff_reset(st, ab, v) ==
    [append(st, v) EXCEPT
        !.look_for_rename = (ab[1] # ab[2]),
        !.last_diff = i,
        !.file_start_header = FALSE,
        !.file_end_header = FALSE,
        !.first_hunk = TRUE,
        !.binary_file = FALSE,
        !.file_loaded = FALSE,
        !.similarity = 0]

diff_step(line, r, n) ==
    /\ resolved' = IF state.first_hunk THEN resolved
                   ELSE Append(resolved, Call("diff", state, FALSE, r))
    /\ IF ~state.first_hunk /\ r.err # "none" THEN Raise(r.err)
       ELSE IF n.err # "none" THEN Raise(n.err)
       ELSE Continue(diff_reset(IF state.first_hunk THEN state ELSE diff_flushed(state, r),
                                split_ab(match_line(line).groups), n.v))

handle_diff_line(line) ==
    /\ match_line(line).type = "DIFF_LINE"
    /\ Read(line, "diff")
    /\ expect' = "any"
    /\ diff_step(line,
                 capture_hunk(state.current_hunk, state.original_lines, state.offset,
                              state.last_hunk, state.current_hunk_header, FALSE),
                 normalize_line(line))

\* the default case of the dispatch: a hunk content line
content_step(n) ==
    IF n.err # "none" THEN Raise(n.err)
    ELSE Continue([state EXCEPT !.current_hunk = Append(@, n.v)])

handle_content_line(line) ==
    /\ match_line(line).type = "None"
    /\ Read(line, "body")
    /\ expect' = "any"
    /\ resolved' = resolved
    /\ content_step(normalize_line(as_text(line)))

\* handle_file_header_start, after the rename and binary checks
start_step(path, current_file, n0, n) ==
    IF path = DevNull
    THEN /\ expect' = "any"
         /\ IF n0.err # "none" THEN Raise(n0.err)
            ELSE Continue([append(state, n0.v) EXCEPT
                     !.current_file = path, !.file_start_header = TRUE])
    ELSE IF ~exists(current_file)
    THEN \* the next line decides: a file end header naming a file makes this a
         \* creation, anything else (or no next line) is an error
         \/ /\ expect' = "file_end"
            /\ IF n.err # "none" THEN Raise(n.err)
               ELSE Continue([append(state, n.v) EXCEPT
                        !.current_file = current_file, !.file_start_header = TRUE,
                        !.original_lines = <<>>, !.file_loaded = TRUE])
         \/ /\ expect' = "any"
            /\ Raise("FileNotFoundError")
    ELSE IF ~is_file(current_file) THEN Raise("IsADirectoryError") /\ expect' = "any"
    ELSE IF ~(dir_mode \/ current_file = opts.original)
    THEN Raise("FileNotFoundError") /\ expect' = "any"
    ELSE /\ expect' = "any"
         /\ IF n.err # "none" THEN Raise(n.err)
            ELSE Continue([append(state, n.v) EXCEPT
                     !.current_file = current_file,
                     !.original_lines = read_lines(current_file),
                     !.file_loaded = TRUE,
                     !.file_start_header = TRUE,
                     !.offset = 0,
                     !.last_hunk = 0])

\* the path of a header with the prefix c/ stripped, and the header with the
\* prefix added where it lacks
strip_prefix(path, c) == IF HasPrefix(path, c) \/ path = <<c, "/">> THEN Drop(path, 2) ELSE path
with_prefix(line, c) ==
    IF strip_prefix(line.path, c) = line.path /\ line.path # DevNull
    THEN [line EXCEPT !.path = <<c, "/">> \o @] ELSE line

handle_file_header_start(line) ==
    /\ match_line(line).type = "FILE_HEADER_START"
    /\ Read(line, "fstart")
    /\ resolved' = resolved
    /\ IF state.look_for_rename THEN Raise("NotImplementedError") /\ expect' = "any"
       ELSE IF state.binary_file THEN Raise("NotImplementedError") /\ expect' = "any"
       ELSE start_step(line.path, strip_prefix(line.path, "a"),
                       normalize_line(line), normalize_line(with_prefix(line, "a")))

\* patch_processor.reconstruct_file_header: [err, v]
reconstructed(m, diff_line, header_type) ==
    IF m.type # "DIFF_LINE" THEN [err |-> "AssertionError", v |-> diff_line]
    ELSE IF header_type = "FILE_HEADER_START"
    THEN [err |-> "none", v |-> FileStart(m.groups[1])]
    ELSE IF header_type = "FILE_HEADER_END"
    THEN [err |-> "none", v |-> FileEnd(m.groups[2])]
    ELSE [err |-> "ValueError", v |-> diff_line]

reconstruct_file_header(diff_line, header_type) ==
    reconstructed(match_line(diff_line), diff_line, header_type)

\* patch_processor.regenerate_index: [err, v]; the old id is the hash of the
\* old file's content, which the model does not compute
regenerate_index(old_path, new_path) ==
    IF new_path = DevNull
    THEN [err |-> "none", v |-> IndexLine("hash", "0000000")]
    ELSE [err |-> "NotImplementedError", v |-> IndexLine("hash", "hash")]

\* list.insert(idx, x)
insert(s, idx, x) == Take(s, idx) \o <<x>> \o Drop(s, idx)

\* "deleted" in line
contains_deleted(line) == line.k = "mode" /\ line.which = "deleted"

\* a header line is normalized and appended: [err, st]
put(st, r) ==
    IF r.err # "none" THEN [err |-> r.err, st |-> st]
    ELSE [err |-> "none", st |-> append(st, r.v)]
put_line(st, line) == put(st, normalize_line(line))
put_made(st, made) == IF made.err # "none" THEN [err |-> made.err, st |-> st] ELSE put_line(st, made.v)

\* handle_file_header_end: the missing index line
end_index(st, dest_file, idx) ==
    IF ~st.missing_index THEN [err |-> "none", st |-> st]
    ELSE IF idx.err # "none" THEN [err |-> idx.err, st |-> st]
    ELSE put_line([st EXCEPT !.last_index = i - 2], idx.v)

\* handle_file_header_end: the missing or wrong "deleted file mode" line
end_deleted_mode(st) ==
    IF st.last_mode <= st.last_diff
    THEN [st EXCEPT !.fixed_lines = insert(@, st.last_diff + 1, ModeLine("deleted")),
                    !.last_index = @ + 1]
    ELSE IF ~contains_deleted(st.fixed_lines[st.last_mode + 1])
    THEN [st EXCEPT !.fixed_lines[st.last_mode + 1] = ModeLine("deleted")]
    ELSE st

\* a handler ends: the exception it raised, or the state it leaves
Settle(r) == IF r.err # "none" THEN Raise(r.err) ELSE Continue(r.st)
with(r, f(_)) == IF r.err # "none" THEN r ELSE [err |-> "none", st |-> f(r.st)]

end_set_start(st) == [st EXCEPT !.file_start_header = TRUE]
end_set_end(st) == [st EXCEPT !.file_end_header = TRUE]
end_set_rename(st) == [st EXCEPT !.file_end_header = TRUE, !.first_hunk = TRUE]

\* handle_file_header_end, after the index line
end_step(st, line, path, dest_file, fixed) ==
    IF ~st.file_start_header
    THEN \* only the file start header is put out here
         IF dest_file = DevNull
         THEN IF st.last_diff > st.last_mode THEN Raise("NotImplementedError")
              ELSE Settle(with(put_made(st, reconstruct_file_header(
                                                Append(patch_lines, line)[st.last_diff + 1],
                                                "FILE_HEADER_START")),
                               end_set_start))
         ELSE Settle(with(put_line(st, FileStart(replace_char(path, "b", "a"))), end_set_start))
    ELSE IF st.current_file = DevNull
    THEN \* file creation
         IF dest_file = DevNull THEN Raise("ValueError")
         ELSE IF exists(dest_file) THEN Raise("FileExistsError")
         ELSE IF ~(dir_mode \/ dest_file = opts.original) THEN Raise("FileNotFoundError")
         ELSE Settle(with(put_line([st EXCEPT !.current_file = dest_file,
                                              !.original_lines = <<>>], fixed),
                          end_set_end))
    ELSE IF dest_file = DevNull
    THEN \* file deletion; Path(None) when no line has named the file yet
         IF st.current_file = None THEN Raise("TypeError")
         ELSE IF ~exists(st.current_file) THEN Raise("FileNotFoundError")
         ELSE IF st.last_mode > st.last_diff /\ st.last_mode >= Len(st.fixed_lines)
         THEN Raise("IndexError")
         ELSE IF st.file_loaded
         THEN Settle(with(put_line(end_deleted_mode(st), fixed), end_set_end))
         ELSE IF ~(dir_mode \/ st.current_file = opts.original) THEN Raise("FileNotFoundError")
         ELSE Settle(with(put_line([end_deleted_mode(st) EXCEPT
                                       !.original_lines = read_lines(st.current_file),
                                       !.file_loaded = TRUE], fixed),
                          end_set_end))
    ELSE IF st.current_file # dest_file
    THEN \* a rename
         Settle(with(put_line(st, fixed), end_set_rename))
    ELSE Settle(with(put_line(st, fixed), end_set_end))

end_indexed(r, line, path, dest_file, fixed) ==
    IF r.err # "none" THEN Raise(r.err)
    ELSE end_step(r.st, line, path, dest_file, fixed)

handle_file_header_end(line) ==
    /\ match_line(line).type = "FILE_HEADER_END"
    /\ Read(line, "fend")
    /\ expect' = "any"
    /\ resolved' = resolved
    /\ end_indexed(end_index(state, strip_prefix(line.path, "b"),
                             regenerate_index(state.current_file, strip_prefix(line.path, "b"))),
                   line, line.path, strip_prefix(line.path, "b"), with_prefix(line, "b"))

\* handle_hunk_header: the missing file headers are put out: [err, st]
hunk_set_start(diff_line, st) ==
    [st EXCEPT !.file_start_header = TRUE,
               !.current_file = split_ab(match_line(diff_line).groups)[1]]

hunk_add_start(st, diff_line) ==
    IF st.file_start_header THEN [err |-> "none", st |-> st]
    ELSE with(put_made(st, reconstruct_file_header(diff_line, "FILE_HEADER_START")),
              LAMBDA s : hunk_set_start(diff_line, s))

hunk_add_end(r, diff_line) ==
    IF r.err # "none" THEN r
    ELSE with(put_made(r.st, reconstruct_file_header(diff_line, "FILE_HEADER_END")), end_set_end)

hunk_headers(st, diff_line) ==
    IF st.file_end_header THEN [err |-> "none", st |-> st]
    ELSE hunk_add_end(hunk_add_start(st, diff_line), diff_line)

\* handle_hunk_header: the pending hunk is resolved and put out
hunk_resolve(st, match_groups, r) ==
    /\ resolved' = Append(resolved, Call("hunk", st, opts.fuzzy, r))
    /\ IF r.err # "none" THEN Raise(r.err)
       ELSE Continue([st EXCEPT
                !.offset = r.offset,
                !.last_hunk = r.last_hunk,
                !.fixed_lines = @ \o <<r.header>> \o st.current_hunk,
                !.current_hunk = <<>>,
                !.current_hunk_header = match_groups])

\* handle_hunk_header, after the missing file headers
hunk_step(h, match_groups) ==
    IF h.err # "none" THEN Raise(h.err) /\ resolved' = resolved
    ELSE IF h.st.first_hunk
    THEN /\ Continue([h.st EXCEPT !.first_hunk = FALSE, !.current_hunk_header = match_groups])
         /\ resolved' = resolved
    ELSE hunk_resolve(h.st, match_groups,
                      capture_hunk(h.st.current_hunk, h.st.original_lines, h.st.offset,
                                   h.st.last_hunk, h.st.current_hunk_header, opts.fuzzy))

handle_hunk_header(line) ==
    /\ match_line(line).type = "HUNK_HEADER"
    /\ Read(line, "hunk")
    /\ expect' = "any"
    /\ IF state.binary_file THEN Raise("ValueError") /\ resolved' = resolved
       ELSE IF state.look_for_rename THEN Raise("ValueError") /\ resolved' = resolved
       ELSE hunk_step(hunk_headers(state, Append(patch_lines, line)[state.last_diff + 1]),
                      match_line(line).groups)

\* str.rstrip("\n") on an output line
rstrip_line(line) ==
    IF line.k = "text" THEN [line EXCEPT !.s = rstrip_newline(@)]
    ELSE [line EXCEPT !.eol = rstrip_newline(@)]

\* fix_patch after the loop: the final newline
strip_last(st) ==
    /\ ~opts.add_newline
    /\ \/ st.original_lines # <<>>
          /\ ~endswith(st.original_lines[Len(st.original_lines)], <<"\n">>)
       \/ st.fixed_lines # <<>> /\ Len(st.original_lines) = 0

finish_newline(st) ==
    IF strip_last(st) /\ st.fixed_lines = <<>> THEN Raise("IndexError")
    ELSE /\ pc' = "done"
         /\ err' = err
         /\ state' = IF strip_last(st)
                     THEN [st EXCEPT !.fixed_lines[Len(st.fixed_lines)] = rstrip_line(@)]
                     ELSE st

\* fix_patch after the loop: the last hunk; an EmptyHunk is swallowed
finish_step(r) ==
    /\ resolved' = IF state.first_hunk THEN resolved
                   ELSE Append(resolved, Call("end", state, opts.fuzzy, r))
    /\ IF state.first_hunk THEN finish_newline(state)
       ELSE IF r.err = "EmptyHunk" THEN finish_newline(state)
       ELSE IF r.err # "none" THEN Raise(r.err)
       ELSE finish_newline([state EXCEPT
                !.offset = r.offset, !.last_hunk = r.last_hunk,
                !.fixed_lines = @ \o <<r.header>> \o state.current_hunk])

\* the end of the input
finish ==
    /\ pc = "loop"
    /\ expect = "any"
    /\ env.stage = "hunk" \/ (lim.free /\ env.stage # "start")
    /\ finish_step(capture_hunk(state.current_hunk, state.original_lines, state.offset,
                                state.last_hunk, state.current_hunk_header, opts.fuzzy))
    /\ UNCHANGED <<fs, opts, lim, patch_lines, env, expect, proc>>

(***************************************************************************)
(* The handlers of the other header lines.  The dispatch of fix_patch has  *)
(* a case SIMILARITY_LINE, but match_line has no such type: a similarity   *)
(* line matches the INDEX_LINE pattern and goes to handle_index_line.      *)
(***************************************************************************)
handle_mode_line(line) ==
    /\ match_line(line).type = "MODE_LINE"
    /\ Read(line, "mode")
    /\ expect' = "any"
    /\ resolved' = resolved
    /\ IF state.last_diff # i - 1 THEN Raise("NotImplementedError")
       ELSE Settle(put_line([state EXCEPT !.last_mode = i], line))

index_found(st) == [st EXCEPT !.missing_index = FALSE]

handle_index_line(line) ==
    /\ match_line(line).type = "INDEX_LINE"
    /\ Read(line, "index")
    /\ expect' = "any"
    /\ resolved' = resolved
    /\ Settle(with(put_line([state EXCEPT !.last_index = i], line), index_found))

handle_binary_line(line) ==
    /\ match_line(line).type = "BINARY_LINE"
    /\ Read(line, "binary")
    /\ expect' = "any"
    /\ resolved' = resolved
    /\ IF opts.remove_binary THEN Raise("NotImplementedError")
       ELSE Settle(put_line([state EXCEPT !.binary_file = TRUE], line))

\* handle_rename_from: no index line right before, a similarity line is put out
rename_from_index(st) ==
    IF st.last_index # i - 1
    THEN put_line([st EXCEPT !.missing_index = TRUE, !.last_index = i - 1], SimilarityLine(100))
    ELSE [err |-> "none", st |-> st]

file_now_loaded(st) == [st EXCEPT !.file_loaded = TRUE]

\* handle_rename_from: the file named is loaded and the line put out
rename_from_load(r, line, current_file) ==
    IF r.err # "none" THEN r
    ELSE IF ~is_file(current_file) THEN [err |-> "IsADirectoryError", st |-> r.st]
    ELSE IF ~(dir_mode \/ current_file = opts.original)
    THEN [err |-> "FileNotFoundError", st |-> r.st]
    ELSE with(put_line([r.st EXCEPT !.look_for_rename = FALSE,
                                    !.current_file = current_file,
                                    !.offset = 0,
                                    !.last_hunk = 0,
                                    !.original_lines = read_lines(current_file)], line),
              file_now_loaded)

handle_rename_from(line) ==
    /\ match_line(line).type = "RENAME_FROM"
    /\ Read(line, "rename_from")
    /\ expect' = "any"
    /\ resolved' = resolved
    /\ IF state.binary_file THEN Raise("NotImplementedError")
       ELSE Settle(rename_from_load(rename_from_index(state), line, match_line(line).groups[1]))

\* handle_rename_to: the line two places back has to be the index line
rename_to_index(st) ==
    IF st.last_index = i - 2 THEN [err |-> "none", st |-> st]
    ELSE IF st.missing_index
    THEN [err |-> "none", st |-> [st EXCEPT !.missing_index = FALSE, !.last_index = i - 2]]
    ELSE [err |-> "NotImplementedError", st |-> st]

rename_done(st) == [st EXCEPT !.look_for_rename = FALSE]

rename_to_put(r, line, current_file) ==
    IF r.err # "none" THEN r
    ELSE IF current_file # <<>> /\ is_dir(current_file)
    THEN [err |-> "IsADirectoryError", st |-> r.st]
    ELSE with(put_line([r.st EXCEPT !.current_file = current_file], line), rename_done)

handle_rename_to(line) ==
    /\ match_line(line).type = "RENAME_TO"
    /\ Read(line, "rename_to")
    /\ expect' = "any"
    /\ resolved' = resolved
    /\ Settle(rename_to_put(rename_to_index(state), line, match_line(line).groups[1]))

\* handle_end_line: the "no newline" marker
handle_end_line(line) ==
    /\ match_line(line).type = "END_LINE"
    /\ Read(line, "body")
    /\ expect' = "any"
    /\ resolved' = resolved
    /\ IF opts.add_newline THEN Continue(append(state, Text(<<"\n">>)))
       ELSE content_step(normalize_line(line))

Next ==
    \/ \E line \in Offered : handle_diff_line(line)
    \/ \E line \in Offered : handle_file_header_start(line)
    \/ \E line \in Offered : handle_file_header_end(line)
    \/ \E line \in Offered : handle_hunk_header(line)
    \/ \E line \in Offered : handle_content_line(line)
    \/ finish

Spec == Init /\ [][Next]_vars

\* up to MaxEntries file entries, each with one hunk, whose file headers may be
\* missing or name no file
InitEntries ==
    /\ InitCommon
    /\ \E cf \in SeqsUpTo(Texts, EntMaxFileLen), cg \in SeqsUpTo(Texts, EntMaxFileLen) :
           fs = [n \in Names |-> IF n = NameF THEN File(cf)
                                 ELSE IF n = NameG THEN File(cg) ELSE Missing]
    /\ lim = [entries |-> MaxEntries, hunks |-> 1, body |-> EntMaxBody, hint |-> EntMaxHint,
              names |-> Names, free |-> TRUE, lines |-> BodyLines, contexts |-> {<<>>}]

SpecEntries == InitEntries /\ [][Next]_vars

(***************************************************************************)
(* One file entry whose header lines come in any order: mode, index,       *)
(* similarity, binary marker, rename from/to, file headers with or without *)
(* their prefix, then one hunk.  The entry may rename f to g, and may name *)
(* the file b.  A line of text or a mode line may stand where the diff     *)
(* line is expected.                                                        *)
(***************************************************************************)
HdrMaxLines == 3
HdrMaxBody == 2

NameB == <<"b">>
HdrNames == {NameF, NameG, NameB}
HdrPairs == {<<NameF, NameF>>, <<NameF, NameG>>, <<NameB, NameB>>}

Junk == Text(<<"j", "\n">>)
ModeLines == {ModeLine("new"), ModeLine("deleted")}

\* the diff line of the entry being read, and the header lines read after it
EntryHead == patch_lines[Max({j \in 1..Len(patch_lines) : patch_lines[j].k = "diff"})]
HeadersRead == Len(patch_lines) - Max({j \in 1..Len(patch_lines) : patch_lines[j].k = "diff"})

HeaderLines(src, dst) ==
    ModeLines
        \cup {IndexLine("1234567", "89abcde"), SimilarityLine(100),
              BinaryLine(a_path(src), b_path(dst)), RenameFrom(src), RenameTo(dst)}
        \cup {FileStart(a_path(src)), FileStart(DevNull), FileStart(src)}
        \cup {FileEnd(b_path(dst)), FileEnd(DevNull), FileEnd(dst)}

HdrBody ==
    {Text(<<" ", "a", "\n">>), Text(<<"-", "a", "\n">>), Text(<<"+", "x", "\n">>),
     Text(<<EndMarker, "\n">>)}

OfferedHeaders ==
    LET begin == IF patch_lines = <<>>
                 THEN {DiffLine(p[1], p[2]) : p \in HdrPairs} \cup {Junk} \cup ModeLines
                 ELSE {}
        stray == IF env.entries = 0 /\ Len(patch_lines) = 1 THEN ModeLines ELSE {}
        headers == IF env.entries = 1 /\ env.hunks = 0 /\ HeadersRead < HdrMaxLines
                   THEN HeaderLines(env.name, Drop(EntryHead.b, 2)) ELSE {}
        hunks == IF env.entries = 1 /\ env.hunks = 0 THEN {HunkHeader(0)} ELSE {}
        body == IF env.hunks > 0 /\ env.body < HdrMaxBody THEN HdrBody ELSE {}
        all == begin \cup stray \cup headers \cup hunks \cup body
    IN  IF expect = "any" THEN all
        ELSE {l \in all : match_line(l).type = "FILE_HEADER_END" /\ l.path # DevNull}

InitHeaders ==
    /\ \E nl \in BOOLEAN :
           fs = [n \in HdrNames |-> IF n = NameG THEN Missing ELSE FileEnding(<<<<"a">>>>, nl)]
    /\ opts \in [original : {Root}, fuzzy : {FALSE}, add_newline : BOOLEAN, strict : {FALSE},
                 remove_binary : {FALSE}, pre_hunk_hook : {FALSE}, post_hunk_hook : {FALSE}]
    /\ lim = [entries |-> 1, hunks |-> 1, body |-> HdrMaxBody, hint |-> 0,
              names |-> HdrNames, free |-> TRUE, lines |-> HdrBody, contexts |-> {<<>>}]
    /\ patch_lines = <<>>
    /\ state = PatchState
    /\ pc = "loop"
    /\ err = "none"
    /\ env = [entries |-> 0, hunks |-> 0, body |-> 0, stage |-> "begin", name |-> None]
    /\ expect = "any"
    /\ resolved = <<>>
    /\ proc = InRepo

NextHeaders ==
    \/ \E line \in OfferedHeaders : handle_diff_line(line)
    \/ \E line \in OfferedHeaders : handle_mode_line(line)
    \/ \E line \in OfferedHeaders : handle_index_line(line)
    \/ \E line \in OfferedHeaders : handle_binary_line(line)
    \/ \E line \in OfferedHeaders : handle_rename_from(line)
    \/ \E line \in OfferedHeaders : handle_rename_to(line)
    \/ \E line \in OfferedHeaders : handle_file_header_start(line)
    \/ \E line \in OfferedHeaders : handle_file_header_end(line)
    \/ \E line \in OfferedHeaders : handle_hunk_header(line)
    \/ \E line \in OfferedHeaders : handle_end_line(line)
    \/ \E line \in OfferedHeaders : handle_content_line(line)
    \/ finish

SpecHeaders == InitHeaders /\ [][NextHeaders]_vars

(***************************************************************************)
(* Single-file mode: `original` is the file f, the process is in the       *)
(* directory of f, which also holds a file b.  The input is the one of     *)
(* SpecHeaders: an entry naming f, b, or f renamed to g.                    *)
(***************************************************************************)
InitSingle ==
    /\ fs = [n \in HdrNames |-> IF n = NameG THEN Missing ELSE FileEnding(<<<<"a">>>>, TRUE)]
    /\ opts \in [original : {NameF}, fuzzy : {FALSE}, add_newline : {FALSE}, strict : {FALSE},
                 remove_binary : {FALSE}, pre_hunk_hook : {FALSE}, post_hunk_hook : {FALSE}]
    /\ lim = [entries |-> 1, hunks |-> 1, body |-> HdrMaxBody, hint |-> 0,
              names |-> HdrNames, free |-> TRUE, lines |-> HdrBody, contexts |-> {<<>>}]
    /\ patch_lines = <<>>
    /\ state = PatchState
    /\ pc = "loop"
    /\ err = "none"
    /\ env = [entries |-> 0, hunks |-> 0, body |-> 0, stage |-> "begin", name |-> None]
    /\ expect = "any"
    /\ resolved = <<>>
    /\ proc = InRepo

SpecSingle == InitSingle /\ [][NextHeaders]_vars

(***************************************************************************)
(* The hooks and the strict flag: up to MaxEntries entries for the file f, *)
(* up to MaxHunks hunks each; each hook given or not, strict set or not.   *)
(***************************************************************************)
\* a context line found in f, one not found, an addition
HookBody == {Text(<<" ", "a", "\n">>), Text(<<" ", "c", "\n">>), Text(<<"+", "x", "\n">>)}

InitHooks ==
    /\ patch_lines = <<>>
    /\ state = PatchState
    /\ pc = "loop"
    /\ err = "none"
    /\ env = [entries |-> 0, hunks |-> 0, body |-> 0, stage |-> "start", name |-> None]
    /\ expect = "any"
    /\ resolved = <<>>
    /\ proc = InRepo
    /\ opts \in [original : {Root}, fuzzy : {FALSE}, add_newline : {FALSE}, strict : BOOLEAN,
                 remove_binary : {FALSE}, pre_hunk_hook : BOOLEAN, post_hunk_hook : BOOLEAN]
    /\ fs = [n \in Names |-> IF n = NameF THEN File(<<<<"a">>, <<"b">>>>) ELSE Missing]
    /\ lim = [entries |-> MaxEntries, hunks |-> MaxHunks, body |-> EntMaxBody, hint |-> 0,
              names |-> {NameF}, free |-> TRUE, lines |-> HookBody, contexts |-> {<<>>}]

SpecHooks == InitHooks /\ [][Next]_vars

(***************************************************************************)
(* Fuzzy matching: one entry for f with its file headers in place, fuzzy   *)
(* set.  The lines of f and the context lines of the hunks are texts that  *)
(* share 2 characters of 3 (similarity 2/3), 3 of 3 and 5 (3/4) or 3 of 5  *)
(* (3/5, the threshold itself).                                             *)
(***************************************************************************)
FuzzyTexts == {<<"a", "b", "c">>, <<"a", "b", "d">>, <<"a", "b", "c", "x", "y">>}
FuzzyBody ==
    {Text(<<" ", "a", "b", "c", "\n">>), Text(<<" ", "a", "b", "c", "d", "e", "\n">>),
     Text(<<"+", "x", "\n">>)}

InitFuzzy ==
    /\ \E c \in SeqsUpTo(FuzzyTexts, 2) :
           fs = [n \in Names |-> IF n = NameF THEN File(c) ELSE Missing]
    /\ opts \in [original : {Root}, fuzzy : {TRUE}, add_newline : {FALSE}, strict : {FALSE},
                 remove_binary : {FALSE}, pre_hunk_hook : {FALSE}, post_hunk_hook : {FALSE}]
    /\ lim = [entries |-> 1, hunks |-> MaxHunks, body |-> MaxBody, hint |-> 2,
              names |-> {NameF}, free |-> FALSE, lines |-> FuzzyBody, contexts |-> {<<>>}]
    /\ patch_lines = <<>>
    /\ state = PatchState
    /\ pc = "loop"
    /\ err = "none"
    /\ env = [entries |-> 0, hunks |-> 0, body |-> 0, stage |-> "start", name |-> None]
    /\ expect = "any"
    /\ resolved = <<>>
    /\ proc = InRepo

SpecFuzzy == InitFuzzy /\ [][Next]_vars

(***************************************************************************)
(* Line endings and whitespace: one entry for f with its file headers in   *)
(* place; the content lines end in any of the terminators, carry trailing  *)
(* spaces and tabs, or a terminator inside; a hunk header may carry a      *)
(* carriage return in its trailing context.                                 *)
(***************************************************************************)
LineBody ==
    {Text(<<" ", "a", "\n">>), Text(<<" ", "a", " ", "\n">>), Text(<<" ", "a", "\r">>),
     Text(<<" ", "a">>), Text(<<"-", "a", "\t", "\r", "\n">>),
     Text(<<"+", "x", "\n">>), Text(<<"+", "x", " ", "\t", "\n">>),
     Text(<<"+", "x", "\n", "\r">>), Text(<<"+", "x", "\r", "y", "\n">>),
     Text(<<"+", "x", "\n", "y", "\n">>), Text(<<>>)}
LineContexts == {<<>>, <<" ", "x", "\r", "y">>}

InitLines ==
    /\ fs = [n \in Names |-> IF n = NameF THEN File(<<<<"a">>>>) ELSE Missing]
    /\ opts \in Options
    /\ lim = [entries |-> 1, hunks |-> MaxHunks, body |-> MaxBody, hint |-> 0,
              names |-> {NameF}, free |-> FALSE, lines |-> LineBody, contexts |-> LineContexts]
    /\ patch_lines = <<>>
    /\ state = PatchState
    /\ pc = "loop"
    /\ err = "none"
    /\ env = [entries |-> 0, hunks |-> 0, body |-> 0, stage |-> "start", name |-> None]
    /\ expect = "any"
    /\ resolved = <<>>
    /\ proc = InRepo

SpecLines == InitLines /\ [][Next]_vars

(***************************************************************************)
(* transformers.split_patch_by_file: the list of (filename, lines).  A     *)
(* line that starts with "diff " is a line of kind "diff" here; the        *)
(* content lines offered do not start with it.                              *)
(***************************************************************************)
SplitMaxLen == 4

has_ab(path, c) == Len(path) >= 2 /\ path[1] = c /\ path[2] = "/"

\* the name taken from a diff line: the group of 'diff.*?a/(.*?)\s+b/' where
\* it matches, else the last word of the line without a leading "b/"
split_name(line) ==
    IF has_ab(line.a, "a") /\ has_ab(line.b, "b") THEN Drop(line.a, 2)
    ELSE IF has_ab(line.b, "b") THEN Drop(line.b, 2)
    ELSE line.b

\* "if current_file and current_lines: files.append(...)": None and the empty
\* string are both false
split_save(acc) ==
    IF acc.current_file # None /\ acc.current_file # <<>> /\ acc.current_lines # <<>>
    THEN Append(acc.files, [name |-> acc.current_file, lines |-> acc.current_lines])
    ELSE acc.files

split_line(acc, line) ==
    IF line.k = "diff"
    THEN [files |-> split_save(acc), current_file |-> split_name(line), current_lines |-> <<line>>]
    ELSE [acc EXCEPT !.current_lines = Append(@, line)]

RECURSIVE split_from(_, _)
split_from(acc, lines) ==
    IF lines = <<>> THEN acc
    ELSE split_from(split_line(acc, Head(lines)), Tail(lines))

split_patch_by_file(lines) ==
    split_save(split_from([files |-> <<>>, current_file |-> None, current_lines |-> <<>>], lines))

\* the lines a patch to split is made of: diff lines for f and g, a diff line
\* with nothing after "a/", one with no "a/", one with nothing after "b/" and
\* no "a/", and two content lines
SplitLines ==
    {DiffLine(NameF, NameF), DiffLine(NameG, NameG), DiffLine(<<>>, NameF),
     [DiffLine(NameF, NameF) EXCEPT !.a = NameF], [DiffLine(NameF, <<>>) EXCEPT !.a = NameF],
     Text(<<" ", "a", "\n">>), Text(<<"+", "x", "\n">>)}

InitSplit ==
    /\ patch_lines \in SeqsUpTo(SplitLines, SplitMaxLen)
    /\ fs = [n \in Names |-> Missing]
    /\ opts \in Options
    /\ lim = [entries |-> 0, hunks |-> 0, body |-> 0, hint |-> 0,
              names |-> {}, free |-> FALSE, lines |-> SplitLines, contexts |-> {<<>>}]
    /\ state = [files |-> <<>>]
    /\ pc = "loop"
    /\ err = "none"
    /\ env = [entries |-> 0, hunks |-> 0, body |-> 0, stage |-> "start", name |-> None]
    /\ expect = "any"
    /\ resolved = <<>>
    /\ proc = InRepo

split ==
    /\ pc = "loop"
    /\ pc' = "done"
    /\ state' = [files |-> split_patch_by_file(patch_lines)]
    /\ UNCHANGED <<fs, opts, lim, patch_lines, err, env, expect, resolved, proc>>

NextSplit == split

SpecSplit == InitSplit /\ [][NextSplit]_vars

(***************************************************************************)
(* Calls of fix_patch one after the other in one process, each with the    *)
(* same patch and the same `original`, given as an absolute path or as a   *)
(* path relative to the working directory.  The tree is /top/repo/f.       *)
(***************************************************************************)
MaxCalls == 3

\* Path(original).absolute(): a relative path is taken from the working directory
absolute(cwd, original) == IF original.abs THEN original.parts ELSE cwd \o original.parts
parent(path) == IF path = <<>> THEN <<>> ELSE SubSeq(path, 1, Len(path) - 1)
basename(path) == <<path[Len(path)]>>

\* the tree as the handlers see it from the working directory
under(cwd) ==
    [n \in Names |-> IF cwd \o n \in TreeFiles THEN File(<<<<"a">>>>)
                     ELSE IF cwd \o n \in TreeDirs THEN [kind |-> "dir", lines |-> <<>>]
                     ELSE Missing]

\* `original` as given to every call, with the directory the process starts in
Relative(parts) == [abs |-> FALSE, parts |-> parts]
Absolute(parts) == [abs |-> TRUE, parts |-> parts]
CallsFrom ==
    {<<Top, Relative(<<"repo">>)>>, <<Top, Relative(<<"repo">> \o NameF)>>,
     <<Top, Absolute(Repo)>>, <<Top, Absolute(Repo \o NameF)>>,
     <<Repo, Relative(<<>>)>>, <<Repo, Relative(NameF)>>}

\* the patches given: with its file headers, without them, with a hunk not in f
CallPatches ==
    {<<DiffLine(NameF, NameF), FileStart(a_path(NameF)), FileEnd(b_path(NameF)),
       HunkHeader(0), Text(<<" ", "a", "\n">>), Text(<<"+", "x", "\n">>)>>,
     <<DiffLine(NameF, NameF), HunkHeader(0), Text(<<"+", "x", "\n">>)>>,
     <<DiffLine(NameF, NameF), FileStart(a_path(NameF)), FileEnd(b_path(NameF)),
       HunkHeader(0), Text(<<" ", "b", "\n">>)>>}

InitCalls ==
    /\ \E from \in CallsFrom : proc = [cwd |-> from[1], original |-> from[2], calls |-> <<>>]
    /\ \E patch \in CallPatches :
           lim = [entries |-> 1, hunks |-> 1, body |-> MaxBody, hint |-> 0, names |-> {NameF},
                  free |-> TRUE, lines |-> BodyLines, contexts |-> {<<>>}, patch |-> patch]
    /\ fs = under(proc.cwd)
    /\ opts \in Options
    /\ patch_lines = <<>>
    /\ state = PatchState
    /\ pc = "idle"
    /\ err = "none"
    /\ env = [entries |-> 0, hunks |-> 0, body |-> 0, stage |-> "start", name |-> None]
    /\ expect = "any"
    /\ resolved = <<>>

\* fix_patch up to its loop: dir_mode, original_path, os.chdir.  From then on
\* opts.original is `original` as the handlers compare it: the directory
\* itself in directory mode, else the name original_path has in the working
\* directory, which is its parent
entered(original_path, target) ==
    IF target \in TreeFiles
    THEN /\ pc' = "raised" /\ err' = "NotADirectoryError"
         /\ UNCHANGED <<fs, opts, proc>>
    ELSE IF target \notin TreeDirs
    THEN /\ pc' = "raised" /\ err' = "FileNotFoundError"
         /\ UNCHANGED <<fs, opts, proc>>
    ELSE /\ pc' = "loop" /\ err' = "none"
         /\ proc' = [proc EXCEPT !.cwd = target]
         /\ fs' = under(target)
         /\ opts' = [opts EXCEPT !.original = IF original_path = target THEN Root
                                              ELSE basename(original_path)]

enter ==
    /\ pc = "idle"
    /\ Len(proc.calls) < MaxCalls
    /\ entered(absolute(proc.cwd, proc.original),
               IF absolute(proc.cwd, proc.original) \in TreeDirs
               THEN absolute(proc.cwd, proc.original)
               ELSE parent(absolute(proc.cwd, proc.original)))
    /\ patch_lines' = <<>>
    /\ state' = PatchState
    /\ env' = [entries |-> 0, hunks |-> 0, body |-> 0, stage |-> "start", name |-> None]
    /\ expect' = "any"
    /\ resolved' = <<>>
    /\ UNCHANGED lim

\* the next line of the patch given
Replayed ==
    IF pc = "loop" /\ Len(patch_lines) < Len(lim.patch)
    THEN {lim.patch[Len(patch_lines) + 1]} ELSE {}

finish_call == Len(patch_lines) = Len(lim.patch) /\ finish

\* what a call gave: the patch returned or the exception
outcome == [pc |-> pc, err |-> err, fixed_lines |-> IF pc = "done" THEN state.fixed_lines ELSE <<>>]

\* the call is over; the process goes on
leave ==
    /\ pc \in {"done", "raised"}
    /\ pc' = "idle"
    /\ proc' = [proc EXCEPT !.calls = Append(@, outcome)]
    /\ UNCHANGED <<fs, opts, lim, patch_lines, state, err, env, expect, resolved>>

NextCalls ==
    \/ enter
    \/ \E line \in Replayed : handle_diff_line(line)
    \/ \E line \in Replayed : handle_file_header_start(line)
    \/ \E line \in Replayed : handle_file_header_end(line)
    \/ \E line \in Replayed : handle_hunk_header(line)
    \/ \E line \in Replayed : handle_content_line(line)
    \/ finish_call
    \/ leave

SpecCalls == InitCalls /\ [][NextCalls]_vars

(***************************************************************************)
(* Calls of find_all_hunk_starts on its own: hunk lines of every kind, a   *)
(* blank line and the "no newline" marker among them, searched in lines    *)
(* that differ in their white space.                                        *)
(***************************************************************************)
SearchMaxHunk == 2
SearchMaxLen == 4

SearchHunkLines ==
    {Text(<<" ", "a", "\n">>), Text(<<"-", "a", " ", "\n">>), Text(<<"+", "x", "\n">>),
     Text(<<"\n">>), Text(<<EndMarker, "\n">>)}
SearchTexts == {<<"a", "\n">>, <<" ", "a">>, <<"\n">>}

InitSearch ==
    /\ \E h \in SeqsUpTo(SearchHunkLines, SearchMaxHunk), s \in SeqsUpTo(SearchTexts, SearchMaxLen) :
           state = [hunk_lines |-> h, search_lines |-> s, fuzzy |-> FALSE,
                    res |-> [err |-> "none", matches |-> <<>>]]
    /\ patch_lines = <<>>
    /\ fs = [n \in Names |-> Missing]
    /\ opts \in Options
    /\ lim = [entries |-> 0, hunks |-> 0, body |-> 0, hint |-> 0,
              names |-> {}, free |-> FALSE, lines |-> SearchHunkLines, contexts |-> {<<>>}]
    /\ pc = "loop"
    /\ err = "none"
    /\ env = [entries |-> 0, hunks |-> 0, body |-> 0, stage |-> "start", name |-> None]
    /\ expect = "any"
    /\ resolved = <<>>
    /\ proc = InRepo

search ==
    /\ pc = "loop"
    /\ pc' = "done"
    /\ state' = [state EXCEPT !.res = find_all_hunk_starts(state.hunk_lines, state.search_lines,
                                                           state.fuzzy)]
    /\ UNCHANGED <<fs, opts, lim, patch_lines, err, env, expect, resolved, proc>>

NextSearch == search

SpecSearch == InitSearch /\ [][NextSearch]_vars

(***************************************************************************)
(* Calls of fuzzy_line_similarity on its own, on two lines of up to        *)
(* SimMaxLen characters drawn from two letters and the space.              *)
(***************************************************************************)
SimMaxLen == 3
SimChars == {"a", "b", " "}

InitSimilar ==
    /\ \E l1 \in SeqsUpTo(SimChars, SimMaxLen), l2 \in SeqsUpTo(SimChars, SimMaxLen) :
           state = [line1 |-> l1, line2 |-> l2, res |-> <<0, 1>>]
    /\ patch_lines = <<>>
    /\ fs = [n \in Names |-> Missing]
    /\ opts \in Options
    /\ lim = [entries |-> 0, hunks |-> 0, body |-> 0, hint |-> 0,
              names |-> {}, free |-> FALSE, lines |-> {}, contexts |-> {<<>>}]
    /\ pc = "loop"
    /\ err = "none"
    /\ env = [entries |-> 0, hunks |-> 0, body |-> 0, stage |-> "start", name |-> None]
    /\ expect = "any"
    /\ resolved = <<>>
    /\ proc = InRepo

similar ==
    /\ pc = "loop"
    /\ pc' = "done"
    /\ state' = [state EXCEPT !.res = fuzzy_line_similarity(state.line1, state.line2)]
    /\ UNCHANGED <<fs, opts, lim, patch_lines, err, env, expect, resolved, proc>>

NextSimilar == similar

SpecSimilar == InitSimilar /\ [][NextSimilar]_vars

(***************************************************************************)
(* Calls of capture_hunk on its own, without fuzzy matching: a hunk of up  *)
(* to CapMaxHunk lines, the "no newline" marker and a blank line among     *)
(* them, reference lines, a last-matched position and a stated old-start.  *)
(***************************************************************************)
CapMaxHunk == 3
CapMaxLen == 3
CapMaxLast == 1
CapMaxHint == 1

CaptureLines ==
    {Text(<<" ", "a", "\n">>), Text(<<"-", "a", "\n">>), Text(<<"-", "b", "\n">>),
     Text(<<"+", "x", "\n">>), Text(<<"\n">>), Text(<<EndMarker, "\n">>)}

\* the reference lines: two lines of text and a blank line
CaptureTexts == {<<"a", "\n">>, <<"b", "\n">>, <<"\n">>}

InitCapture ==
    /\ \E h \in SeqsUpTo(CaptureLines, CapMaxHunk), f \in SeqsUpTo(CaptureTexts, CapMaxLen),
          p \in 0..CapMaxLast, e \in 0..CapMaxHint :
           state = [current_hunk |-> h, original_lines |-> f, offset |-> 0, last_hunk |-> p,
                    old_header |-> <<e, <<>>>>, fuzzy |-> FALSE,
                    res |-> capture_fail("none", 0, p)]
    /\ patch_lines = <<>>
    /\ fs = [n \in Names |-> Missing]
    /\ opts \in Options
    /\ lim = [entries |-> 0, hunks |-> 0, body |-> 0, hint |-> 0,
              names |-> {}, free |-> FALSE, lines |-> CaptureLines, contexts |-> {<<>>}]
    /\ pc = "loop"
    /\ err = "none"
    /\ env = [entries |-> 0, hunks |-> 0, body |-> 0, stage |-> "start", name |-> None]
    /\ expect = "any"
    /\ resolved = <<>>
    /\ proc = InRepo

capture ==
    /\ pc = "loop"
    /\ pc' = "done"
    /\ state' = [state EXCEPT !.res = capture_hunk(state.current_hunk, state.original_lines,
                                                   state.offset, state.last_hunk,
                                                   state.old_header, state.fuzzy)]
    /\ UNCHANGED <<fs, opts, lim, patch_lines, err, env, expect, resolved, proc>>

NextCapture == capture

SpecCapture == InitCapture /\ [][NextCapture]_vars

(***************************************************************************)
(* Fuzzy matching over several file entries: fix_patch with fuzzy set on   *)
(* up to MaxEntries entries for f, each with one hunk, so that a hunk is   *)
(* closed by the diff line of the next entry or by the end of the input.   *)
(***************************************************************************)
InitFuzzyEntries ==
    /\ \E c \in SeqsUpTo(FuzzyTexts, 2) :
           fs = [n \in Names |-> IF n = NameF THEN File(c) ELSE Missing]
    /\ opts \in [original : {Root}, fuzzy : {TRUE}, add_newline : {FALSE}, strict : {FALSE},
                 remove_binary : {FALSE}, pre_hunk_hook : {FALSE}, post_hunk_hook : {FALSE}]
    /\ lim = [entries |-> MaxEntries, hunks |-> MaxHunks, body |-> EntMaxBody, hint |-> 0,
              names |-> {NameF}, free |-> TRUE, lines |-> FuzzyBody, contexts |-> {<<>>}]
    /\ patch_lines = <<>>
    /\ state = PatchState
    /\ pc = "loop"
    /\ err = "none"
    /\ env = [entries |-> 0, hunks |-> 0, body |-> 0, stage |-> "start", name |-> None]
    /\ expect = "any"
    /\ resolved = <<>>
    /\ proc = InRepo

SpecFuzzyEntries == InitFuzzyEntries /\ [][Next]_vars

(***************************************************************************)
(* Reading a patch, the input or the output: its hunk headers, the body    *)
(* under each, and the numbers of a header.                                 *)
(***************************************************************************)
HunksOf(lines) == {h \in 1..Len(lines) : lines[h].k = "hunk"}

\* the lines under the header at h, up to the next header of any kind
BodyEnd(lines, h) ==
    Min({j \in h..Len(lines) : j = Len(lines) \/ lines[j + 1].k # "text"})
BodyOf(lines, h) == SubSeq(lines, h + 1, BodyEnd(lines, h))

Tagged(body, tags) == Cardinality({n \in 1..Len(body) : body[n].s # <<>> /\ body[n].s[1] \in tags})
OldCountOf(body) == Tagged(body, {" ", "-"})
NewCountOf(body) == Tagged(body, {" ", "+"})

\* a count left out of a header stands for 1
CountIn(c) == IF c = NoCount THEN 1 ELSE c
Numbers(header) ==
    <<header.old_start, CountIn(header.old_count), header.new_start, CountIn(header.new_count)>>

\* two hunk headers of one file entry, with no hunk header between them
SameEntry(lines, h1, h2) == \A j \in h1..h2 : lines[j].k # "diff"
Successive(lines, h1, h2) ==
    /\ h1 < h2
    /\ SameEntry(lines, h1, h2)
    /\ \A j \in (h1 + 1)..(h2 - 1) : lines[j].k # "hunk"

Output == state.fixed_lines
Returned == pc = "done"

Nth(S, k) == CHOOSE x \in S : Cardinality({y \in S : y < x}) = k - 1

IsOld(line) == line.s # <<>> /\ line.s[1] \in {" ", "-"}
TextOf(line) == rstrip_newline(Drop(line.s, 1))
OldLines(body) == [n \in 1..OldCountOf(body) |-> TextOf(SelectSeq(body, IsOld)[n])]

\* the old lines of the body stand in F from line p on (1-based); a body with
\* no old line inserts after line p
FitsAt(F, body, p) ==
    IF OldCountOf(body) = 0 THEN p \in 0..Len(F)
    ELSE /\ p >= 1
         /\ p + OldCountOf(body) - 1 <= Len(F)
         /\ \A j \in 1..OldCountOf(body) : F[p + j - 1] = OldLines(body)[j]

\* the last line of F that hunk k takes when it starts at t[k]
EndOf(bodies, t, k) ==
    IF OldCountOf(bodies[k]) = 0 THEN t[k] ELSE t[k] + OldCountOf(bodies[k]) - 1

RECURSIVE OffsetBefore(_, _)
OffsetBefore(bodies, k) ==
    IF k = 1 THEN 0
    ELSE OffsetBefore(bodies, k - 1) + NewCountOf(bodies[k - 1]) - OldCountOf(bodies[k - 1])

ValidAt(F, bodies, t) ==
    \A k \in 1..Len(bodies) :
        /\ bodies[k] # <<>>
        /\ FitsAt(F, bodies[k], t[k])
        /\ k > 1 => IF OldCountOf(bodies[k]) = 0 THEN t[k] >= EndOf(bodies, t, k - 1)
                    ELSE t[k] > EndOf(bodies, t, k - 1)

\* the four numbers of hunk k in the valid patch that starts its hunks at t
ValidNumbers(bodies, t, k) ==
    <<t[k], OldCountOf(bodies[k]),
      IF NewCountOf(bodies[k]) = 0 THEN t[k] - 1 + OffsetBefore(bodies, k)
      ELSE IF OldCountOf(bodies[k]) = 0 THEN t[k] + 1 + OffsetBefore(bodies, k)
      ELSE t[k] + OffsetBefore(bodies, k),
      NewCountOf(bodies[k])>>

\* the input: the reference of the one entry, its hunks, the old-starts they state
Reference == fs[NameF].lines
InputHunks == Cardinality(HunksOf(patch_lines))
InputBodies == [k \in 1..InputHunks |-> BodyOf(patch_lines, Nth(HunksOf(patch_lines), k))]
Stated == [k \in 1..InputHunks |-> patch_lines[Nth(HunksOf(patch_lines), k)].old_start]
Placements == [1..InputHunks -> 0..MaxFileLen]
ValidPlacements == {t \in Placements : ValidAt(Reference, InputBodies, t)}

\* fix_patch has seen the whole input: it returned, or failed on the last hunk
AtEnd == Returned \/ (pc = "raised" /\ resolved # <<>> /\ resolved[Len(resolved)].site = "end")

\* the output carries, for every hunk of the input, the numbers of the valid patch at t
Reproduces(t) ==
    /\ Returned
    /\ Cardinality(HunksOf(Output)) = InputHunks
    /\ \A k \in 1..InputHunks :
           Numbers(Output[Nth(HunksOf(Output), k)]) = ValidNumbers(InputBodies, t, k)

(***************************************************************************)
(* C1. Round trip: whatever old-starts the input states, for every patch P *)
(* valid against the reference whose hunk bodies are those of the input,   *)
(* fix_patch returns a patch whose hunk headers carry the four numbers of  *)
(* P.                                                                       *)
(***************************************************************************)
C1_RoundTrip == AtEnd => \A t \in ValidPlacements : Reproduces(t)

\* one place only makes the input valid, and the output states another
C1_Failing ==
    /\ Returned
    /\ Cardinality(ValidPlacements) = 1
    /\ \E t \in ValidPlacements : ~Reproduces(t)

(***************************************************************************)
(* C3. Monotonicity: in the returned patch, of two successive hunk headers *)
(* of one file entry the later states the greater old-start, whatever the  *)
(* kind of the hunks.                                                       *)
(***************************************************************************)
C3_Monotonic ==
    Returned =>
        \A h1, h2 \in HunksOf(Output) :
            Successive(Output, h1, h2) => Output[h1].old_start < Output[h2].old_start

\* a hunk found by search at line 1 or later, followed by a hunk of deletions only
C3_Failing ==
    /\ Returned
    /\ \E h1, h2 \in HunksOf(Output) :
           /\ Successive(Output, h1, h2)
           /\ Output[h1].old_start >= 1
           /\ NewCountOf(BodyOf(Output, h1)) > 0
           /\ NewCountOf(BodyOf(Output, h2)) = 0
           /\ Output[h2].old_start <= Output[h1].old_start

(***************************************************************************)
(* C4. Idempotence: when the old-starts the input states make it a valid   *)
(* patch against the reference, fix_patch returns the same content lines   *)
(* and, for every hunk, the four numbers of that valid patch; hunks with   *)
(* no context line are included.                                            *)
(***************************************************************************)
ContentOf(lines) == [n \in 1..Len(SelectSeq(lines, LAMBDA l : l.k = "text")) |->
                        rstrip_newline(SelectSeq(lines, LAMBDA l : l.k = "text")[n].s)]

C4_Idempotent ==
    (AtEnd /\ ValidAt(Reference, InputBodies, Stated)) =>
        /\ Reproduces(Stated)
        /\ ContentOf(Output) = ContentOf(patch_lines)

\* a valid patch of one hunk that deletes a line other than the first, with no context
C4_Failing ==
    /\ Returned
    /\ InputHunks = 1
    /\ ValidAt(Reference, InputBodies, Stated)
    /\ Stated[1] > 1
    /\ NewCountOf(InputBodies[1]) = 0
    /\ ~Reproduces(Stated)

\* a valid patch of two hunks, both with context, is given back as it was
C4_Kept ==
    /\ Returned
    /\ InputHunks = 2
    /\ ValidAt(Reference, InputBodies, Stated)
    /\ \A k \in 1..2 : Tagged(InputBodies[k], {" "}) > 0 /\ Tagged(InputBodies[k], {"+"}) > 0
    /\ Reproduces(Stated)

(***************************************************************************)
(* C5. No overlap: in the returned patch, of two successive hunk headers   *)
(* of one file entry the later starts at or after the earlier's old-start  *)
(* plus old-count.                                                          *)
(***************************************************************************)
C5_NoOverlap ==
    Returned =>
        \A h1, h2 \in HunksOf(Output) :
            Successive(Output, h1, h2) =>
                Output[h2].old_start >= Output[h1].old_start + CountIn(Output[h1].old_count)

\* two hunks, each with a context line, found by search; the later starts on
\* the second line of the earlier
C5_Failing ==
    /\ Returned
    /\ \E h1, h2 \in HunksOf(Output) :
           /\ Successive(Output, h1, h2)
           /\ Tagged(BodyOf(Output, h1), {" "}) = 2
           /\ Tagged(BodyOf(Output, h2), {" "}) > 0
           /\ Output[h2].old_start = Output[h1].old_start + 1

(***************************************************************************)
(* The calls of capture_hunk: the file entry a call belongs to, and what   *)
(* the call was given.                                                      *)
(***************************************************************************)
Calls == 1..Len(resolved)

DiffsOf(lines) == {j \in 1..Len(lines) : lines[j].k = "diff"}
EntryDiff(e) == Nth(DiffsOf(patch_lines), e)
EntryName(e) == Drop(patch_lines[EntryDiff(e)].a, 2)
\* the lines of entry e after its diff line
EntryLines(e) ==
    {j \in (EntryDiff(e) + 1)..Len(patch_lines) :
        \A m \in (EntryDiff(e) + 1)..j : patch_lines[m].k # "diff"}
HasLine(e, k) == \E j \in EntryLines(e) : patch_lines[j].k = k
IsCreation(e) ==
    \E j \in EntryLines(e) : patch_lines[j].k = "fstart" /\ patch_lines[j].path = DevNull

\* the content of the source file of entry e; nothing for a creation
SourceOf(e) ==
    IF IsCreation(e) \/ ~is_file(EntryName(e)) THEN <<>> ELSE read_lines(EntryName(e))

\* the call went through the search: the hunk is neither all deletions nor all additions
Searched(c) ==
    /\ c.hunk # <<>>
    /\ Tagged(c.hunk, {"-"}) # Len(c.hunk)
    /\ Tagged(c.hunk, {"+"}) # Len(c.hunk)
Hint(c) == IF c.old_header # <<>> THEN c.old_header[1] ELSE 0
Placed(c) == c.res.err = "none"

(***************************************************************************)
(* C6. Every call of capture_hunk is given, as reference lines, the        *)
(* content of the source file of the hunk's own file entry (nothing for a  *)
(* creation), also when the entry's file headers are missing.               *)
(***************************************************************************)
C6_OwnReference ==
    \A n \in Calls : resolved[n].original_lines = SourceOf(resolved[n].entry)

\* the second entry names a file and has no file header; its hunk is searched
\* and placed in the lines of the first entry's file, which are not those of its own
C6_Failing ==
    /\ Returned
    /\ \E n \in Calls :
           /\ resolved[n].entry = 2
           /\ is_file(EntryName(2))
           /\ ~HasLine(2, "fstart") /\ ~HasLine(2, "fend")
           /\ Searched(resolved[n])
           /\ Placed(resolved[n])
           /\ resolved[n].original_lines # <<>>
           /\ resolved[n].original_lines = SourceOf(1)
           /\ resolved[n].original_lines # SourceOf(2)

(***************************************************************************)
(* C7. Per-entry reset: the call of capture_hunk for the first hunk of any *)
(* file entry is given offset 0 and last-matched position 0.                *)
(***************************************************************************)
C7_Reset ==
    \A n \in Calls :
        resolved[n].nth = 1 => resolved[n].offset = 0 /\ resolved[n].last_hunk = 0

\* the first hunk of the second entry, a creation, starts from what the hunk
\* of the first entry left
C7_Failing ==
    /\ Returned
    /\ \E n \in Calls :
           /\ resolved[n].entry = 2
           /\ resolved[n].nth = 1
           /\ IsCreation(2)
           /\ Placed(resolved[n])
           /\ resolved[n].offset # 0
           /\ resolved[n].last_hunk # 0

(***************************************************************************)
(* C8. Without fuzzy matching, a hunk whose context and deletion lines     *)
(* stand nowhere in the reference fails with MissingHunkError, and the     *)
(* detail of the error holds no addition line.                              *)
(***************************************************************************)
Nowhere(c) ==
    /\ OldCountOf(c.hunk) > 0
    /\ \A p \in 1..Len(c.original_lines) : ~FitsAt(c.original_lines, c.hunk, p)

C8_NotFound ==
    \A n \in Calls :
        (~resolved[n].fuzzy /\ Nowhere(resolved[n])) =>
            /\ resolved[n].res.err = "MissingHunkError"
            /\ \A m \in 1..Len(format_hunk_for_error(resolved[n].hunk)) :
                   ~startswith(format_hunk_for_error(resolved[n].hunk)[m].s, "+")

\* a hunk that deletes a line the reference does not hold is put out at line 1
C8_Failing ==
    /\ Returned
    /\ \E n \in Calls :
           /\ ~resolved[n].fuzzy
           /\ Nowhere(resolved[n])
           /\ resolved[n].original_lines # <<>>
           /\ Placed(resolved[n])
           /\ resolved[n].res.header.old_start = 1
           /\ resolved[n].res.header \in {Output[h] : h \in HunksOf(Output)}

(***************************************************************************)
(* C9. When the position found for a hunk is before last-matched position  *)
(* + 1, capture_hunk fails with OutOfOrderHunk and with nothing else.      *)
(***************************************************************************)
Found(c) ==
    search_old_start(c.hunk, c.original_lines, c.last_hunk, Len(c.hunk), Hint(c), c.fuzzy)
FoundBefore(c) ==
    /\ Searched(c)
    /\ Found(c).err = "none"
    /\ Found(c).old_start < c.last_hunk + 1

C9_OutOfOrder ==
    \A n \in Calls : FoundBefore(resolved[n]) => resolved[n].res.err = "OutOfOrderHunk"

\* the hunk before was placed on the last line of the reference
C9_Failing ==
    /\ pc = "raised"
    /\ err = "IndexError"
    /\ \E n \in Calls :
           /\ FoundBefore(resolved[n])
           /\ resolved[n].last_hunk = Len(resolved[n].original_lines)
           /\ resolved[n].res.err = "IndexError"

(***************************************************************************)
(* C10. Disambiguation: a hunk located by search, whose context and        *)
(* deletion lines stand at one or more places from the search start on, is *)
(* placed at the one nearest to the old-start its header stated, at the    *)
(* earliest of the nearest, and at the first place when the header stated  *)
(* no old-start or 0.                                                       *)
(***************************************************************************)
Candidates(c) ==
    {p \in 1..Len(c.original_lines) :
        p >= c.last_hunk + 1 /\ FitsAt(c.original_lines, c.hunk, p)}

Nearest(c, p) ==
    \A q \in Candidates(c) :
        \/ Abs(p - Hint(c)) < Abs(q - Hint(c))
        \/ Abs(p - Hint(c)) = Abs(q - Hint(c)) /\ p <= q

C10_Disambiguation ==
    \A n \in Calls :
        (Searched(resolved[n]) /\ Candidates(resolved[n]) # {}) =>
            /\ Placed(resolved[n])
            /\ resolved[n].res.header.old_start \in Candidates(resolved[n])
            /\ Hint(resolved[n]) # 0 => Nearest(resolved[n], resolved[n].res.header.old_start)
            /\ Hint(resolved[n]) = 0 =>
                   resolved[n].res.header.old_start = Min(Candidates(resolved[n]))

\* three places to choose from and a stated old-start: the place taken is not the first
C10_Witness ==
    \E n \in Calls :
        /\ Searched(resolved[n])
        /\ Cardinality(Candidates(resolved[n])) = 3
        /\ Hint(resolved[n]) # 0
        /\ Placed(resolved[n])
        /\ resolved[n].res.header.old_start # Min(Candidates(resolved[n]))

\* two places as near to the stated old-start as each other: the earlier is taken
C10_Tie ==
    \E n \in Calls :
        /\ Searched(resolved[n])
        /\ \E p, q \in Candidates(resolved[n]) :
               p < q /\ Abs(p - Hint(resolved[n])) = Abs(q - Hint(resolved[n]))
                     /\ resolved[n].res.header.old_start = p

(***************************************************************************)
(* The header lines of the one entry read under SpecHeaders.               *)
(***************************************************************************)
InputHas(type) == \E j \in 1..Len(patch_lines) : match_line(patch_lines[j]).type = type
OutputAt(k) == {j \in 1..Len(Output) : Output[j].k = k}
HunkReached == env.entries = 1 /\ env.hunks > 0 /\ pc # "raised"

\* one line of kind k stands in the output, before every hunk header, with this path
PutBeforeHunks(k, path) ==
    /\ Cardinality(OutputAt(k)) = 1
    /\ \A j \in OutputAt(k) :
           /\ Output[j].path = path
           /\ \A h \in HunksOf(Output) : j < h

(***************************************************************************)
(* C11. Once a hunk header is reached, a file start header that did not    *)
(* appear in the entry has been put out with exactly the a/ path of the    *)
(* diff line, and a file end header that did not appear with exactly its   *)
(* b/ path, before the first hunk header of the output; this holds for     *)
(* every path and also when only one of the two is missing.                *)
(***************************************************************************)
C11_Synthesized ==
    HunkReached =>
        /\ ~InputHas("FILE_HEADER_START") => PutBeforeHunks("fstart", EntryHead.a)
        /\ ~InputHas("FILE_HEADER_END") => PutBeforeHunks("fend", EntryHead.b)

\* the entry names the file b and has its file end header only: the start
\* header put out names a/a
C11_Failing ==
    /\ Returned
    /\ HunksOf(Output) # {}
    /\ EntryHead = DiffLine(NameB, NameB)
    /\ ~InputHas("FILE_HEADER_START")
    /\ patch_lines[2] = FileEnd(b_path(NameB))
    /\ \E j \in OutputAt("fstart") : Output[j].path = <<"a", "/", "a">>

\* both headers missing: both are put out from the diff line
C11_Both ==
    /\ Returned
    /\ HunksOf(Output) # {}
    /\ ~InputHas("FILE_HEADER_START")
    /\ ~InputHas("FILE_HEADER_END")
    /\ PutBeforeHunks("fstart", EntryHead.a)
    /\ PutBeforeHunks("fend", EntryHead.b)

\* the start header alone is missing and the name holds no letter b
C11_StartOnly ==
    /\ Returned
    /\ HunksOf(Output) # {}
    /\ EntryHead = DiffLine(NameF, NameF)
    /\ ~InputHas("FILE_HEADER_START")
    /\ patch_lines[2] = FileEnd(b_path(NameF))
    /\ PutBeforeHunks("fstart", EntryHead.a)
    /\ PutBeforeHunks("fend", EntryHead.b)

(***************************************************************************)
(* C12. Every line of the returned patch ends with exactly one line feed   *)
(* and holds no carriage return, except that the last line has no line     *)
(* feed exactly when add_newline is off and the reference file does not    *)
(* end with a line feed; when the reference file ends with one, the last   *)
(* line keeps its own.                                                      *)
(***************************************************************************)
EndOfLine(line) == IF line.k = "text" THEN line.s ELSE line.eol
EndsOnce(line) ==
    /\ endswith(EndOfLine(line), <<"\n">>)
    /\ count_char(EndOfLine(line), "\n") = 1
    /\ count_char(EndOfLine(line), "\r") = 0
Bare(line) == count_char(EndOfLine(line), "\n") = 0 /\ count_char(EndOfLine(line), "\r") = 0

\* the file the entry names ends with a line feed
ReferenceEnded == fs[env.name].nl

C12_Terminators ==
    (Returned /\ env.entries = 1 /\ Output # <<>>) =>
        /\ \A j \in 1..(Len(Output) - 1) : EndsOnce(Output[j])
        /\ IF ~opts.add_newline /\ ~ReferenceEnded THEN Bare(Output[Len(Output)])
           ELSE EndsOnce(Output[Len(Output)])

\* a well-formed entry on a file that ends with a line feed, add_newline off:
\* the last line of the patch lost its line feed
C12_Failing ==
    /\ Returned
    /\ ~opts.add_newline
    /\ fs[NameF].nl
    /\ Len(patch_lines) = 6
    /\ SubSeq(patch_lines, 1, 4) =
           <<DiffLine(NameF, NameF), FileStart(a_path(NameF)), FileEnd(b_path(NameF)), HunkHeader(0)>>
    /\ state.original_lines = <<<<"a">>>>
    /\ Len(Output) = 6
    /\ Output[6] = Text(<<"+", "x">>)

\* the same entry on a file that does not end with a line feed
C12_Stripped ==
    /\ Returned
    /\ ~opts.add_newline
    /\ ~fs[NameF].nl
    /\ Len(patch_lines) = 6
    /\ SubSeq(patch_lines, 1, 4) =
           <<DiffLine(NameF, NameF), FileStart(a_path(NameF)), FileEnd(b_path(NameF)), HunkHeader(0)>>
    /\ Output[6] = Text(<<"+", "x">>)

\* with add_newline on the last line keeps its line feed
C12_Kept ==
    /\ Returned
    /\ opts.add_newline
    /\ Len(patch_lines) = 6
    /\ SubSeq(patch_lines, 1, 4) =
           <<DiffLine(NameF, NameF), FileStart(a_path(NameF)), FileEnd(b_path(NameF)), HunkHeader(0)>>
    /\ Output[6] = Text(<<"+", "x", "\n">>)

(***************************************************************************)
(* C13. A hunk header with no line under it that ends its file entry is    *)
(* dropped without an error, at the end of the input and before the diff   *)
(* line of the next entry alike: fix_patch does not fail on it and puts    *)
(* out no hunk header for it.                                               *)
(***************************************************************************)
Trailing(c) == c.site \in {"diff", "end"} /\ c.hunk = <<>>

C13_Dropped ==
    /\ \A n \in Calls :
           Trailing(resolved[n]) => ~(pc = "raised" /\ err = "EmptyHunk" /\ n = Len(resolved))
    /\ Returned =>
           Cardinality(HunksOf(Output)) = Cardinality({n \in Calls : resolved[n].hunk # <<>>})

\* the empty hunk ends the first entry and the diff line of the second follows
C13_Failing ==
    /\ pc = "raised"
    /\ err = "EmptyHunk"
    /\ Cardinality(DiffsOf(patch_lines)) = 2
    /\ patch_lines[Len(patch_lines)].k = "diff"
    /\ patch_lines[Len(patch_lines) - 1].k = "hunk"
    /\ resolved[Len(resolved)].site = "diff"
    /\ Trailing(resolved[Len(resolved)])

\* at the end of the input the empty hunk is dropped
C13_AtEnd ==
    /\ Returned
    /\ resolved # <<>>
    /\ resolved[Len(resolved)].site = "end"
    /\ Trailing(resolved[Len(resolved)])
    /\ patch_lines[Len(patch_lines)].k = "hunk"
    /\ HunksOf(Output) = {}

(***************************************************************************)
(* C14. In the output the header lines of a file entry stand in the order  *)
(* diff, mode, rename from/to, index or similarity, binary, file start,    *)
(* file end, and a mode line stands right after the diff line of its own   *)
(* entry, the "deleted file mode" line that handle_file_header_end adds    *)
(* included, whatever stands before the entry.                              *)
(***************************************************************************)
HeaderKinds == {"diff", "mode", "rename_from", "rename_to", "index", "similarity",
                "binary", "fstart", "fend"}
Rank(k) ==
    CASE k = "diff" -> 1
      [] k = "mode" -> 2
      [] k \in {"rename_from", "rename_to"} -> 3
      [] k \in {"index", "similarity"} -> 4
      [] k = "binary" -> 5
      [] k = "fstart" -> 6
      [] k = "fend" -> 7

InOrder(lines) ==
    \A j \in 1..Len(lines), m \in 1..Len(lines) :
        (/\ j < m
         /\ lines[j].k \in HeaderKinds
         /\ lines[m].k \in HeaderKinds
         /\ \A n \in (j + 1)..m : lines[n].k # "diff") => Rank(lines[j].k) <= Rank(lines[m].k)

AfterDiff(lines) ==
    \A j \in 1..Len(lines) : lines[j].k = "mode" => j > 1 /\ lines[j - 1].k = "diff"

C14_HeaderOrder == Returned => InOrder(Output) /\ AfterDiff(Output)

\* the second entry deletes its file and states no mode; the first entry's file
\* headers were put out by handle_hunk_header, and the mode line lands among
\* the lines of the first entry
C14_Failing ==
    /\ Returned
    /\ Cardinality(DiffsOf(patch_lines)) = 2
    /\ \A j \in 1..Len(patch_lines) : patch_lines[j].k # "mode"
    /\ patch_lines[Len(patch_lines)] = FileEnd(DevNull)
    /\ \E j \in 2..Len(Output) :
           /\ Output[j] = ModeLine("deleted")
           /\ Output[j - 1].k # "diff"
           /\ j < Nth(DiffsOf(Output), 2)

\* a single deletion entry: the mode line is put right after the diff line
C14_Single ==
    /\ Returned
    /\ Cardinality(DiffsOf(patch_lines)) = 1
    /\ \A j \in 1..Len(patch_lines) : patch_lines[j].k # "mode"
    /\ Len(Output) > 1
    /\ Output[2] = ModeLine("deleted")

(***************************************************************************)
(* C15. A mode line is accepted only when the input line right before it   *)
(* is the diff line of its entry; a mode line anywhere else, also in a     *)
(* patch that has no diff line before it, makes fix_patch fail with the    *)
(* "not yet supported" error (NotImplementedError).                         *)
(***************************************************************************)
ModesOf(lines) == {j \in 1..Len(lines) : lines[j].k = "mode"}
RaisedAt(j, e) == pc = "raised" /\ err = e /\ j = Len(patch_lines)

C15_ModePlace ==
    \A j \in ModesOf(patch_lines) :
        IF j > 1 /\ patch_lines[j - 1].k = "diff"
        THEN ~(pc = "raised" /\ j = Len(patch_lines))
        ELSE RaisedAt(j, "NotImplementedError")

\* the patch has no diff line: a line of text, then a mode line, which is
\* accepted and returned
C15_Failing ==
    /\ Returned
    /\ patch_lines = <<Junk, ModeLine("new")>>
    /\ ModesOf(Output) # {}

\* a mode line after the index line of its entry is refused
C15_Refused ==
    /\ Len(patch_lines) = 3
    /\ patch_lines[1].k = "diff"
    /\ patch_lines[2].k = "index"
    /\ patch_lines[3].k = "mode"
    /\ RaisedAt(3, "NotImplementedError")

\* a mode line right after the diff line is accepted
C15_Accepted ==
    /\ Returned
    /\ Len(patch_lines) > 2
    /\ patch_lines[1].k = "diff"
    /\ patch_lines[2].k = "mode"
    /\ Output[2] = patch_lines[2]

(***************************************************************************)
(* C16. Once an entry holds a binary-files marker together with a file     *)
(* start header, a file end header, a rename-from line or a rename-to      *)
(* line, in whichever order they came, fix_patch has failed: the line      *)
(* that completes the combination is the last line it reads.               *)
(***************************************************************************)
BinaryCombined ==
    /\ InputHas("BINARY_LINE")
    /\ \/ InputHas("FILE_HEADER_START")
       \/ InputHas("FILE_HEADER_END")
       \/ InputHas("RENAME_FROM")
       \/ InputHas("RENAME_TO")

C16_BinaryAlone == BinaryCombined => pc = "raised"

\* the marker, then the file end header: the patch is returned
C16_Failing ==
    /\ Returned
    /\ patch_lines = <<DiffLine(NameF, NameF), BinaryLine(a_path(NameF), b_path(NameF)),
                       FileEnd(b_path(NameF))>>
    /\ OutputAt("binary") # {}

\* the file start header, then the marker: the patch is returned
C16_MarkerLast ==
    /\ Returned
    /\ patch_lines = <<DiffLine(NameF, NameF), FileStart(a_path(NameF)),
                       BinaryLine(a_path(NameF), b_path(NameF))>>
    /\ OutputAt("binary") # {} /\ OutputAt("fstart") # {}

\* the marker between the index line and the rename-to line: the patch is returned
C16_RenameTo ==
    /\ Returned
    /\ Len(patch_lines) = 4
    /\ patch_lines[2].k = "index"
    /\ patch_lines[3].k = "binary"
    /\ patch_lines[4].k = "rename_to"
    /\ OutputAt("binary") # {} /\ OutputAt("rename_to") # {}

\* the marker, then the file start header or the rename-from line: refused
C16_Refused ==
    /\ Len(patch_lines) = 3
    /\ patch_lines[2].k = "binary"
    /\ patch_lines[3].k \in {"fstart", "rename_from"}
    /\ match_line(patch_lines[3]).type \in {"FILE_HEADER_START", "RENAME_FROM"}
    /\ RaisedAt(3, "NotImplementedError")

(***************************************************************************)
(* C17. An entry without an index or similarity line is returned only      *)
(* when it is a deletion, and then with an index line put in whose new id  *)
(* is all zeros; for any other entry without such a line fix_patch fails   *)
(* and returns no patch.                                                    *)
(***************************************************************************)
DeletionEntry ==
    \E j \in 1..Len(patch_lines) :
        match_line(patch_lines[j]).type = "FILE_HEADER_END" /\ patch_lines[j].path = DevNull

C17_IndexRequired ==
    (Returned /\ env.entries = 1 /\ ~InputHas("INDEX_LINE")) =>
        /\ DeletionEntry
        /\ \E j \in OutputAt("index") : Output[j].new = "0000000"

\* a modification with its file headers and a hunk, no index line: returned as it is
C17_Failing ==
    /\ Returned
    /\ ~InputHas("INDEX_LINE")
    /\ patch_lines =
           <<DiffLine(NameF, NameF), FileStart(a_path(NameF)), FileEnd(b_path(NameF)), HunkHeader(0),
             Text(<<" ", "a", "\n">>), Text(<<"+", "x", "\n">>)>>
    /\ HunksOf(Output) # {}
    /\ OutputAt("index") = {} /\ OutputAt("similarity") = {}

\* a deletion without an index line is returned without one
C17_Deletion ==
    /\ Returned
    /\ ~InputHas("INDEX_LINE")
    /\ Len(patch_lines) > 4
    /\ SubSeq(patch_lines, 1, 4) =
           <<DiffLine(NameF, NameF), FileStart(a_path(NameF)), FileEnd(DevNull), HunkHeader(0)>>
    /\ HunksOf(Output) # {}
    /\ OutputAt("index") = {} /\ OutputAt("similarity") = {}

\* the one way to an index line put in: a rename-from line that no index line precedes
C17_PutIn ==
    /\ Returned
    /\ ~InputHas("INDEX_LINE")
    /\ InputHas("RENAME_FROM")
    /\ DeletionEntry
    /\ \E j \in OutputAt("index") : Output[j].new = "0000000"

(***************************************************************************)
(* C18. An entry that holds only one of the two rename lines is repaired:  *)
(* fix_patch does not fail on the lone line, and the returned patch holds  *)
(* both, "rename from" with the source path and "rename to" with the       *)
(* destination path of the diff line.                                       *)
(***************************************************************************)
OneRename == InputHas("RENAME_FROM") # InputHas("RENAME_TO")
SourcePath == Drop(EntryHead.a, 2)
DestPath == Drop(EntryHead.b, 2)

C18_PairCompleted ==
    (env.entries = 1 /\ OneRename) =>
        /\ ~(pc = "raised" /\ patch_lines[Len(patch_lines)].k \in {"rename_from", "rename_to"})
        /\ Returned =>
               /\ \E j \in OutputAt("rename_from") : Output[j].path = SourcePath
               /\ \E j \in OutputAt("rename_to") : Output[j].path = DestPath

\* the rename-to line alone, after the similarity line: refused
C18_Failing ==
    /\ patch_lines = <<DiffLine(NameF, NameG), SimilarityLine(100), RenameTo(NameG)>>
    /\ RaisedAt(3, "NotImplementedError")

\* the rename-from line alone: returned without a rename-to line
C18_Lone ==
    /\ Returned
    /\ patch_lines = <<DiffLine(NameF, NameG), SimilarityLine(100), RenameFrom(NameF)>>
    /\ OutputAt("rename_from") # {}
    /\ OutputAt("rename_to") = {}

\* both lines after the similarity line: returned as they are
C18_Pair ==
    /\ Returned
    /\ patch_lines = <<DiffLine(NameF, NameG), SimilarityLine(100), RenameFrom(NameF), RenameTo(NameG)>>
    /\ Len(Output) = 4
    /\ Output[3] = RenameFrom(NameF)

(***************************************************************************)
(* C19. An entry whose diff line names two different paths, with no rename *)
(* line and no similarity line, is repaired as a rename: fix_patch does    *)
(* not fail on the entry's file start header or on its first hunk header,  *)
(* and the returned patch holds a "rename from" line with the source path  *)
(* and a "rename to" line with the destination path.                       *)
(***************************************************************************)
ImplicitRename ==
    /\ env.entries = 1
    /\ SourcePath # DestPath
    /\ ~InputHas("RENAME_FROM")
    /\ ~InputHas("RENAME_TO")
    /\ \A j \in 1..Len(patch_lines) : patch_lines[j].k \notin {"similarity", "binary"}

FirstOfType(type) ==
    /\ match_line(patch_lines[Len(patch_lines)]).type = type
    /\ \A j \in 1..(Len(patch_lines) - 1) : match_line(patch_lines[j]).type # type

C19_ImplicitRename ==
    ImplicitRename =>
        /\ ~(pc = "raised" /\ (FirstOfType("FILE_HEADER_START") \/ FirstOfType("HUNK_HEADER")))
        /\ Returned =>
               /\ \E j \in OutputAt("rename_from") : Output[j].path = SourcePath
               /\ \E j \in OutputAt("rename_to") : Output[j].path = DestPath

\* the file start header right after the diff line: refused
C19_Failing ==
    /\ patch_lines = <<DiffLine(NameF, NameG), FileStart(a_path(NameF))>>
    /\ RaisedAt(2, "NotImplementedError")

\* no file start header: the end header is taken, the hunk header is refused
C19_AtHunk ==
    /\ patch_lines = <<DiffLine(NameF, NameG), FileEnd(b_path(NameG)), HunkHeader(0)>>
    /\ RaisedAt(3, "ValueError")

\* the diff line alone is returned as it is, with no rename line
C19_Bare ==
    /\ Returned
    /\ patch_lines = <<DiffLine(NameF, NameG)>>
    /\ Output = patch_lines

(***************************************************************************)
(* C20. A "--- path" or "+++ path" line is handled as a file header        *)
(* whether or not its path has the a/ or b/ prefix: it never becomes a     *)
(* line of a hunk, and it is put out with the prefix added; /dev/null is   *)
(* put out without a prefix and a path that has the prefix is put out as   *)
(* it is.                                                                   *)
(***************************************************************************)
HeaderSide(line) == IF line.k = "fstart" THEN "a" ELSE "b"
PathHeaders == {j \in 1..Len(patch_lines) : patch_lines[j].k \in {"fstart", "fend"}}
Unprefixed(line) == line.path # DevNull /\ ~HasPrefix(line.path, HeaderSide(line))
InHunk(line) ==
    \/ \E j \in 1..Len(state.current_hunk) : state.current_hunk[j] = as_text(line)
    \/ \E j \in 1..Len(Output) : Output[j] = as_text(line)
JustRead(j) == j = Len(patch_lines) /\ pc = "loop"
\* a file end header is put out by its handler when a file start header came before it
StartSeen(j, lines) == patch_lines[j].k = "fend" => \E q \in lines : q < j /\ patch_lines[q].k = "fstart"

C20_PathPrefix ==
    \A j \in PathHeaders :
        /\ ~InHunk(patch_lines[j])
        /\ (JustRead(j) /\ StartSeen(j, PathHeaders)) =>
               Output[Len(Output)] = with_prefix(patch_lines[j], HeaderSide(patch_lines[j]))

\* the part about /dev/null and about paths that have the prefix
C20_PrefixedKept ==
    \A j \in PathHeaders :
        (/\ JustRead(j)
         /\ ~Unprefixed(patch_lines[j])
         /\ StartSeen(j, {q \in PathHeaders : ~Unprefixed(patch_lines[q])})) =>
            Output[Len(Output)] = patch_lines[j]

\* "--- f" right after the diff line is taken as a line of a hunk
C20_Failing ==
    /\ patch_lines = <<DiffLine(NameF, NameF), FileStart(NameF)>>
    /\ pc = "loop"
    /\ state.current_hunk = <<as_text(FileStart(NameF))>>
    /\ Len(Output) = 1

\* "+++ f" right after the diff line is taken as a line of a hunk too
C20_EndAsContent ==
    /\ patch_lines = <<DiffLine(NameF, NameF), FileEnd(NameF)>>
    /\ pc = "loop"
    /\ state.current_hunk = <<as_text(FileEnd(NameF))>>

\* "--- a/f" is put out as it is
C20_Prefixed ==
    /\ patch_lines = <<DiffLine(NameF, NameF), FileStart(a_path(NameF))>>
    /\ pc = "loop"
    /\ Output[2] = FileStart(a_path(NameF))

\* "+++ /dev/null" is put out without a prefix
C20_DevNull ==
    /\ JustRead(3)
    /\ patch_lines[3] = FileEnd(DevNull)
    /\ Output[Len(Output)] = FileEnd(DevNull)

(***************************************************************************)
(* C29. capture_hunk places a hunk made of deletion lines only at          *)
(* old-start 1 and new-start 0, and a hunk made of addition lines only at  *)
(* old-start 0 and new-start 1, whatever the reference lines, the running  *)
(* offset, the last matched position and the old-start its header stated.  *)
(***************************************************************************)
Only(c, tag) == c.hunk # <<>> /\ Tagged(c.hunk, {tag}) = Len(c.hunk)
StartsAt(c, old_start, new_start) ==
    /\ Placed(c)
    /\ c.res.header.old_start = old_start
    /\ c.res.header.new_start = new_start

C29_Degenerate ==
    \A n \in Calls :
        /\ Only(resolved[n], "-") => StartsAt(resolved[n], 1, 0)
        /\ Only(resolved[n], "+") => StartsAt(resolved[n], 0, 1)

\* a second hunk of one deletion line that is nowhere in the reference, after
\* a first hunk that moved the offset and the last position, with old-start 3
\* stated: placed at 1
C29_Witness ==
    \E n \in Calls :
        /\ Only(resolved[n], "-")
        /\ \A p \in 1..Len(resolved[n].original_lines) :
               ~FitsAt(resolved[n].original_lines, resolved[n].hunk, p)
        /\ resolved[n].offset # 0
        /\ resolved[n].last_hunk > 0
        /\ Hint(resolved[n]) = 3
        /\ StartsAt(resolved[n], 1, 0)

\* a hunk of additions only, on a reference that has lines, after a first hunk
C29_Additions ==
    \E n \in Calls :
        /\ Only(resolved[n], "+")
        /\ resolved[n].original_lines # <<>>
        /\ resolved[n].last_hunk > 0
        /\ Hint(resolved[n]) = 2
        /\ StartsAt(resolved[n], 0, 1)

(***************************************************************************)
(* C30. On a reference of zero lines every hunk that has lines, also one   *)
(* with context or deletion lines, is placed without error at old-start 0  *)
(* with old-count 0, and at new-start 1.                                    *)
(***************************************************************************)
OnNothing(c) == c.original_lines = <<>> /\ c.hunk # <<>>

C30_EmptyReference ==
    \A n \in Calls :
        OnNothing(resolved[n]) =>
            /\ StartsAt(resolved[n], 0, 1)
            /\ CountIn(resolved[n].res.header.old_count) = 0

\* a context line and an addition on a file of zero lines: not found
C30_Failing ==
    /\ pc = "raised"
    /\ err = "MissingHunkError"
    /\ Len(resolved) = 1
    /\ OnNothing(resolved[1])
    /\ resolved[1].hunk = <<Text(<<" ", "a", "\n">>), Text(<<"+", "x", "\n">>)>>

\* deletion lines only: placed, at old-start 1 with their count
C30_Deletion ==
    \E n \in Calls :
        /\ OnNothing(resolved[n])
        /\ Only(resolved[n], "-")
        /\ StartsAt(resolved[n], 1, 0)
        /\ CountIn(resolved[n].res.header.old_count) = Len(resolved[n].hunk)

\* addition lines only: placed as the claim says
C30_Creation ==
    \E n \in Calls :
        /\ OnNothing(resolved[n])
        /\ Only(resolved[n], "+")
        /\ StartsAt(resolved[n], 0, 1)
        /\ CountIn(resolved[n].res.header.old_count) = 0

(***************************************************************************)
(* C21. In single-file mode a patch is returned only if every diff line,   *)
(* file start header, file end header, rename-from and rename-to line of   *)
(* the patch that names a path names the file given as `original`.         *)
(***************************************************************************)
PathsNamed(line) ==
    IF match_line(line).type = "DIFF_LINE" THEN {Drop(line.a, 2), Drop(line.b, 2)}
    ELSE IF match_line(line).type \in {"FILE_HEADER_START", "FILE_HEADER_END"}
    THEN {strip_prefix(line.path, HeaderSide(line))} \ {DevNull}
    ELSE IF match_line(line).type \in {"RENAME_FROM", "RENAME_TO"} THEN {line.path}
    ELSE {}
OtherNamedBy(types) ==
    {j \in 1..Len(patch_lines) :
        /\ match_line(patch_lines[j]).type \in types
        /\ PathsNamed(patch_lines[j]) \ {opts.original} # {}}

C21_SingleFile ==
    (~dir_mode /\ Returned) =>
        OtherNamedBy({"DIFF_LINE", "FILE_HEADER_START", "FILE_HEADER_END",
                      "RENAME_FROM", "RENAME_TO"}) = {}

\* an entry for the file b, with no file headers, given for the file f:
\* returned, with file headers put in for b
C21_Failing ==
    /\ ~dir_mode
    /\ Returned
    /\ patch_lines = <<DiffLine(NameB, NameB), HunkHeader(0), Text(<<"+", "x", "\n">>)>>
    /\ Output[1] = DiffLine(NameB, NameB)

\* a file end header naming g after a start header naming f: returned
C21_EndHeader ==
    /\ ~dir_mode
    /\ Returned
    /\ OtherNamedBy({"FILE_HEADER_END"}) # {}

\* a rename-to line naming g: returned
C21_RenameTo ==
    /\ ~dir_mode
    /\ Returned
    /\ OtherNamedBy({"RENAME_TO"}) # {}

\* a file start header naming the file b, which exists: refused
C21_Refused ==
    /\ ~dir_mode
    /\ patch_lines = <<DiffLine(NameB, NameB), FileStart(a_path(NameB))>>
    /\ RaisedAt(2, "FileNotFoundError")

\* what is enforced: no patch is returned with a file start header or a
\* rename-from line naming a file that exists and is not the one given
C21_StartChecked ==
    (~dir_mode /\ Returned) =>
        \A j \in OtherNamedBy({"FILE_HEADER_START", "RENAME_FROM"}) :
            \A q \in PathsNamed(patch_lines[j]) \ {opts.original} : ~exists(q)

(***************************************************************************)
(* C23: the hooks around the resolution of a hunk.                          *)
(***************************************************************************)
\* the hooks that are given were called around the call n of capture_hunk
HooksAround(n) ==
    /\ resolved[n].pre_hook = opts.pre_hunk_hook
    /\ resolved[n].post_hook = opts.post_hunk_hook

\* the calls of capture_hunk that placed a hunk, whose header and body were put out
Emitted == {n \in Calls : resolved[n].res.err = "none"}

\* C23: for every hunk that is resolved and put out, a pre-hunk hook that is
\* given was called right before the resolution and a post-hunk hook that is
\* given right after it, whether the hunk is closed by another hunk header, by
\* the diff line of the next entry or by the end of the input
C23_HooksAround == \A n \in Emitted : HooksAround(n)

\* a patch of two entries is returned with both hooks given: the hunk of the
\* first entry, closed by the second diff line, was put out with no hook called
C23_Failing ==
    /\ Returned
    /\ opts.pre_hunk_hook /\ opts.post_hunk_hook
    /\ \E n \in Emitted :
           /\ resolved[n].site = "diff"
           /\ resolved[n].hunk # <<>>
           /\ ~resolved[n].pre_hook /\ ~resolved[n].post_hook

\* a hunk closed by a hunk header or by the end of the input has its hooks called
C23_AtHunkAndEnd == \A n \in Emitted : resolved[n].site # "diff" => HooksAround(n)

\* both hooks given, one hunk closed by a hunk header and one by the end of the input
C23_Called ==
    /\ Returned
    /\ opts.pre_hunk_hook /\ opts.post_hunk_hook
    /\ \E n, q \in Emitted :
           /\ resolved[n].site = "hunk" /\ resolved[q].site = "end"
           /\ resolved[n].pre_hook /\ resolved[n].post_hook
           /\ resolved[q].pre_hook /\ resolved[q].post_hook

(***************************************************************************)
(* C24: the file named by a hunk error.                                     *)
(***************************************************************************)
\* the calls of capture_hunk that raised MissingHunkError or OutOfOrderHunk
HunkErrors == {n \in Calls : resolved[n].res.err \in {"MissingHunkError", "OutOfOrderHunk"}}

\* C24: a hunk-not-found or out-of-order error that leaves fix_patch names the
\* file of the entry when that file is known, never "(unknown file)", with
\* strict set or not; and it does leave fix_patch, which returns no patch
C24_ErrorNamesFile ==
    \A n \in HunkErrors :
        /\ pc = "raised" /\ err = resolved[n].res.err
        /\ resolved[n].file # None => resolved[n].error_file = resolved[n].file

\* strict is set and the second hunk header closes a hunk that is not found in
\* f: the error names "(unknown file)"
C24_Failing ==
    /\ opts.strict
    /\ pc = "raised" /\ err = "MissingHunkError"
    /\ \E n \in HunkErrors :
           /\ resolved[n].site = "hunk"
           /\ resolved[n].file = <<".", "/">> \o NameF
           /\ resolved[n].error_file = UnknownFile

\* the same for a hunk placed at or before the one before it
C24_OutOfOrder ==
    /\ opts.strict
    /\ pc = "raised" /\ err = "OutOfOrderHunk"
    /\ \E n \in HunkErrors :
           /\ resolved[n].site = "hunk"
           /\ resolved[n].error_file = UnknownFile

\* without strict, and where a diff line or the end of the input closes the
\* hunk, the error names the file; in every case no patch is returned
C24_NamedElsewhere ==
    \A n \in HunkErrors :
        /\ pc = "raised" /\ err = resolved[n].res.err
        /\ (~opts.strict \/ resolved[n].site # "hunk") => resolved[n].error_file = resolved[n].file

\* strict is set and the error of a hunk closed by the end of the input names f
C24_Named ==
    /\ opts.strict
    /\ pc = "raised"
    /\ \E n \in HunkErrors :
           /\ resolved[n].site = "end"
           /\ resolved[n].error_file = <<".", "/">> \o NameF

(***************************************************************************)
(* C25: fuzzy matching only where exact matching fails.                     *)
(***************************************************************************)
\* the region capture_hunk searches first, the positions of it where the
\* context of the hunk stands exactly, and the candidates the search gathers
Region(c) == Drop(c.original_lines, c.last_hunk)
ExactIn(c) ==
    {q \in 0..(Len(Region(c)) - Len(build_ctx(c.hunk))) : exact_at(build_ctx(c.hunk), Region(c), q)}
Gathered(c) ==
    LET found == find_all_hunk_starts(c.hunk, Region(c), c.fuzzy).matches
    IN  {found[q] : q \in 1..Len(found)}
\* the hunk c is searched for, with fuzzy set
FuzzySearched(c) ==
    /\ c.fuzzy
    /\ build_ctx(c.hunk) # <<>>
    /\ ~Only(c, "-") /\ ~Only(c, "+")

\* the mean similarity of the context to the lines at position q of the region
MeanAt(c, q) ==
    LET tot == total_similarity(build_ctx(c.hunk), Region(c), q, 0)
    IN  <<tot[1], tot[2] * Len(build_ctx(c.hunk))>>

\* C25: with fuzzy set, when the context of a hunk stands exactly somewhere in
\* the region searched, every candidate position is an exact occurrence and
\* the old-start the hunk is given is one of them
C25_ExactFirst ==
    \A n \in Calls :
        (FuzzySearched(resolved[n]) /\ ExactIn(resolved[n]) # {}) =>
            /\ Gathered(resolved[n]) \subseteq ExactIn(resolved[n])
            /\ (Placed(resolved[n]) =>
                   (resolved[n].res.header.old_start - 1 - resolved[n].last_hunk)
                       \in ExactIn(resolved[n]))

\* f = abc, abd; the hunk has the context abc and its header states line 2:
\* it is placed at line 2, on abd, although abc stands at line 1
C25_Failing ==
    /\ Returned
    /\ fs[NameF].lines = <<<<"a", "b", "c">>, <<"a", "b", "d">>>>
    /\ \E n \in Calls :
           /\ FuzzySearched(resolved[n])
           /\ resolved[n].hunk = <<Text(<<" ", "a", "b", "c", "\n">>), Text(<<"+", "x", "\n">>)>>
           /\ resolved[n].last_hunk = 0
           /\ ExactIn(resolved[n]) = {0}
           /\ Gathered(resolved[n]) = {0, 1}
           /\ resolved[n].res.header.old_start = 2

\* a candidate that is not an exact occurrence has a mean similarity above 3/5
C25_Threshold ==
    \A n \in Calls :
        FuzzySearched(resolved[n]) =>
            \A q \in Gathered(resolved[n]) \ ExactIn(resolved[n]) :
                frac_less(FuzzyThreshold, MeanAt(resolved[n], q))

\* the context abcde against f = abcxy, similarity 3/5: not found
C25_AtThreshold ==
    /\ pc = "raised" /\ err = "MissingHunkError"
    /\ fs[NameF].lines = <<<<"a", "b", "c", "x", "y">>>>
    /\ \E n \in Calls :
           /\ FuzzySearched(resolved[n])
           /\ build_ctx(resolved[n].hunk) = <<<<"a", "b", "c", "d", "e", "\n">>>>
           /\ MeanAt(resolved[n], 0) = <<6, 10>>

\* a hunk placed on a line that is not its context, where the context stands
\* nowhere exactly
C25_Fuzzy ==
    /\ Returned
    /\ \E n \in Calls :
           /\ FuzzySearched(resolved[n])
           /\ ExactIn(resolved[n]) = {}
           /\ Gathered(resolved[n]) # {}
           /\ Placed(resolved[n])

(***************************************************************************)
(* C26: what becomes of a content line.                                     *)
(***************************************************************************)
\* the content lines of the input and of the output, in order
TextLines(lines) == SelectSeq(lines, LAMBDA l : l.k = "text")
\* the number of characters of the terminator of a string, and the string
\* before its terminator
TerminatorLen(s) ==
    IF endswith(s, <<"\r", "\n">>) THEN 2
    ELSE IF endswith(s, <<"\r">>) \/ endswith(s, <<"\n">>) THEN 1
    ELSE 0
Interior(s) == SubSeq(s, 1, Len(s) - TerminatorLen(s))
EndsInWhitespace(s) == s # <<>> /\ s[Len(s)] \in Whitespace

\* C26: in the patch returned, an addition line has no whitespace before its
\* line feed, and a context or deletion line is the line of the input before
\* its terminator, trailing spaces and tabs included (the line feed of the
\* last line of the output apart)
C26_Normalized ==
    Returned =>
        /\ Len(TextLines(Output)) = Len(TextLines(patch_lines))
        /\ \A j \in 1..Len(TextLines(Output)) :
               IF startswith(TextLines(Output)[j].s, "+")
               THEN ~EndsInWhitespace(rstrip_newline(TextLines(Output)[j].s))
               ELSE rstrip_newline(TextLines(Output)[j].s) = Interior(TextLines(patch_lines)[j].s)

\* the addition line "+x", a space, a tab: returned as it is
C26_Failing ==
    /\ Returned
    /\ TextLines(patch_lines) = <<Text(<<" ", "a", "\n">>), Text(<<"+", "x", " ", "\t", "\n">>)>>
    /\ TextLines(Output) = <<Text(<<" ", "a", "\n">>), Text(<<"+", "x", " ", "\t">>)>>

\* every content line returned, an addition too, is the line of the input
\* before its terminator, followed by one line feed (none where the last line
\* of the output lost it)
C26_ContentKept ==
    Returned =>
        /\ Len(TextLines(Output)) = Len(TextLines(patch_lines))
        /\ \A j \in 1..Len(TextLines(Output)) :
               \/ TextLines(Output)[j].s = Interior(TextLines(patch_lines)[j].s) \o <<"\n">>
               \/ /\ TextLines(Output)[j] = Output[Len(Output)]
                  /\ TextLines(Output)[j].s = Interior(TextLines(patch_lines)[j].s)

\* a deletion line with a tab before its CR LF: kept, the terminator made a
\* line feed
C26_Kept ==
    /\ Returned
    /\ TextLines(patch_lines) = <<Text(<<"-", "a", "\t", "\r", "\n">>), Text(<<"+", "x", "\n">>)>>
    /\ TextLines(Output)[1] = Text(<<"-", "a", "\t", "\n">>)

(***************************************************************************)
(* C27: lines that are refused.                                             *)
(***************************************************************************)
\* a string normalize_line has to refuse: it ends in LF CR, or has a line
\* feed or carriage return before its terminator
Malformed(s) ==
    \/ endswith(s, <<"\n", "\r">>)
    \/ \E q \in 1..Len(Interior(s)) : Interior(s)[q] \in {"\n", "\r"}
\* the part of a patch line that may hold a line feed or carriage return
Ending(line) ==
    IF line.k = "text" THEN line.s
    ELSE IF line.k = "hunk" THEN line.context \o line.eol
    ELSE line.eol
MalformedLines == {j \in 1..Len(patch_lines) : Malformed(Ending(patch_lines[j]))}

\* C27: a line with a line feed or carriage return before its terminator, or
\* ending in LF CR, is refused: no patch is returned for an input holding
\* one; every other content line is taken as its content and one line feed
C27_Rejected ==
    /\ Returned => MalformedLines = {}
    /\ \A j \in 1..Len(state.current_hunk) :
           \E q \in 1..Len(patch_lines) :
               /\ patch_lines[q].k = "text"
               /\ ~Malformed(patch_lines[q].s)
               /\ state.current_hunk[j].s = Interior(patch_lines[q].s) \o <<"\n">>

\* a hunk header with a carriage return inside its trailing context: the
\* patch is returned, the carriage return in its header
C27_Failing ==
    /\ Returned
    /\ MalformedLines # {}
    /\ \E j \in OutputAt("hunk") : \E q \in 1..Len(Output[j].context) : Output[j].context[q] = "\r"

\* a content line that has to be refused is refused, with the error of its
\* kind, and is the last line read; the lines taken are content and line feed
C27_ContentRejected ==
    /\ \A j \in MalformedLines :
           patch_lines[j].k = "text" =>
               /\ j = Len(patch_lines)
               /\ pc = "raised"
               /\ err = IF ~endswith(patch_lines[j].s, <<"\n", "\r">>)
                            /\ \E q \in 1..Len(Interior(patch_lines[j].s)) :
                                   Interior(patch_lines[j].s)[q] = "\n"
                         THEN "ValueError" ELSE "BadCarriageReturn"
    /\ \A j \in 1..Len(state.current_hunk) :
           \E q \in 1..Len(patch_lines) :
               /\ patch_lines[q].k = "text"
               /\ ~Malformed(patch_lines[q].s)
               /\ state.current_hunk[j].s = Interior(patch_lines[q].s) \o <<"\n">>

\* a line ending in LF CR was refused; a line with a line feed inside was refused
C27_Refused ==
    /\ pc = "raised" /\ err = "ValueError"
    /\ patch_lines[Len(patch_lines)] = Text(<<"+", "x", "\n", "y", "\n">>)
    /\ state.current_hunk = <<Text(<<"\n">>)>>

(***************************************************************************)
(* C28: splitting a patch into its file entries.                            *)
(***************************************************************************)
DiffsIn(lines) == {j \in 1..Len(lines) : lines[j].k = "diff"}

RECURSIVE Joined(_)
Joined(pieces) == IF pieces = <<>> THEN <<>> ELSE Head(pieces).lines \o Joined(Tail(pieces))

\* the input from its first diff line on
FromFirstDiff(lines) == IF DiffsIn(lines) = {} THEN <<>> ELSE Drop(lines, Min(DiffsIn(lines)) - 1)

\* every piece starts with a diff line and holds no other, and the pieces
\* put together in their order are the input from its first diff line on
SplitKeeps(pieces, lines) ==
    /\ \A n \in 1..Len(pieces) : DiffsIn(pieces[n].lines) = {1}
    /\ Joined(pieces) = FromFirstDiff(lines)

\* C28: the pieces split_patch_by_file returns each start with the one diff
\* line they hold, come in the order of the input and hold no line of another
\* entry, and put together they are the input from its first diff line to its
\* end
C28_SplitKeeps == pc = "done" => SplitKeeps(state.files, patch_lines)

\* an entry whose diff line has nothing after "a/", then an entry for f: the
\* first entry is in no piece
C28_Failing ==
    /\ pc = "done"
    /\ patch_lines = <<DiffLine(<<>>, NameF), Text(<<"+", "x", "\n">>),
                       DiffLine(NameF, NameF), Text(<<" ", "a", "\n">>)>>
    /\ state.files = <<[name |-> NameF,
                        lines |-> <<DiffLine(NameF, NameF), Text(<<" ", "a", "\n">>)>>]>>

\* where every diff line yields a name that is not empty, nothing is lost
C28_NamedKept ==
    (pc = "done" /\ \A j \in DiffsIn(patch_lines) : split_name(patch_lines[j]) # <<>>)
        => SplitKeeps(state.files, patch_lines)

\* a content line, an entry for f and an entry for g: two pieces
C28_Split ==
    /\ pc = "done"
    /\ patch_lines = <<Text(<<" ", "a", "\n">>), DiffLine(NameF, NameF),
                       Text(<<"+", "x", "\n">>), DiffLine(NameG, NameG)>>
    /\ state.files = <<[name |-> NameF, lines |-> <<DiffLine(NameF, NameF), Text(<<"+", "x", "\n">>)>>],
                       [name |-> NameG, lines |-> <<DiffLine(NameG, NameG)>>]>>

(***************************************************************************)
(* C22: the same call again.                                                *)
(***************************************************************************)
\* C22: calls of fix_patch made one after the other in one process with the
\* same patch and the same `original`, a relative path too, on the same
\* files, give the same: nothing a call leaves behind, the working directory
\* of the process included, changes what a later call gives
C22_SameAgain ==
    \A j, k \in 1..Len(proc.calls) : proc.calls[j] = proc.calls[k]

\* `original` is "repo", the process starts in /top: the first call returns
\* a patch and leaves the process in /top/repo, the second call raises
C22_Failing ==
    /\ proc.original = Relative(<<"repo">>)
    /\ proc.cwd = Repo
    /\ Len(proc.calls) = 2
    /\ proc.calls[1].pc = "done"
    /\ proc.calls[2].pc = "raised" /\ proc.calls[2].err = "FileNotFoundError"

\* the same with the file "repo/f": the second call finds no /top/repo/repo
C22_FailingFile ==
    /\ proc.original = Relative(<<"repo">> \o NameF)
    /\ Len(proc.calls) = 2
    /\ proc.calls[1].pc = "done"
    /\ proc.calls[2] = [pc |-> "raised", err |-> "FileNotFoundError", fixed_lines |-> <<>>]

\* with an absolute path, or a relative path that leads to the working
\* directory itself or to a file in it, every call gives the same
C22_SamePlace ==
    (proc.original.abs \/ proc.original.parts \in {<<>>, NameF})
        => \A j, k \in 1..Len(proc.calls) : proc.calls[j] = proc.calls[k]

\* three calls with the absolute path of the directory, each returning the patch
C22_Thrice ==
    /\ proc.original = Absolute(Repo)
    /\ Len(proc.calls) = MaxCalls
    /\ \A j \in 1..MaxCalls : proc.calls[j].pc = "done" /\ proc.calls[j].fixed_lines # <<>>

(***************************************************************************)
(* C31. Running offset: for a hunk located by search, the new-start of the *)
(* header is old-start plus the sum of (new-count - old-count) over the    *)
(* hunks resolved before it in the same file entry, and 0 when new-count   *)
(* is 0; every resolved hunk moves the offset by (new-count - old-count).  *)
(***************************************************************************)
Growth(c) == CountIn(c.res.header.new_count) - CountIn(c.res.header.old_count)

\* the calls before call n, in the same file entry, that resolved their hunk
EarlierIn(n) ==
    {m \in 1..(n - 1) : resolved[m].entry = resolved[n].entry /\ Placed(resolved[m])}

RECURSIVE GrowthOver(_)
GrowthOver(S) ==
    IF S = {} THEN 0
    ELSE LET m == CHOOSE x \in S : TRUE IN Growth(resolved[m]) + GrowthOver(S \ {m})

C31_RunningOffset ==
    \A n \in Calls :
        Placed(resolved[n]) =>
            /\ resolved[n].res.offset = resolved[n].offset + Growth(resolved[n])
            /\ (Searched(resolved[n]) =>
                   resolved[n].res.header.new_start =
                       IF CountIn(resolved[n].res.header.new_count) = 0 THEN 0
                       ELSE resolved[n].res.header.old_start + GrowthOver(EarlierIn(n)))

\* the first hunk of the second entry is found by search on line 1 and given
\* a new-start other than 1: the offset the first entry left is added to it
C31_Failing ==
    /\ Returned
    /\ \E n \in Calls :
           /\ resolved[n].entry = 2
           /\ resolved[n].nth = 1
           /\ Searched(resolved[n])
           /\ Placed(resolved[n])
           /\ EarlierIn(n) = {}
           /\ resolved[n].offset # 0
           /\ resolved[n].res.header.old_start = 1
           /\ resolved[n].res.header.new_start = 1 + resolved[n].offset

\* within one entry the second hunk, found by search, is moved by what the
\* first hunk added
C31_Second ==
    /\ Returned
    /\ \E n \in Calls :
           /\ resolved[n].nth = 2
           /\ Searched(resolved[n])
           /\ Placed(resolved[n])
           /\ EarlierIn(n) # {}
           /\ GrowthOver(EarlierIn(n)) # 0
           /\ resolved[n].res.header.new_start =
                  resolved[n].res.header.old_start + GrowthOver(EarlierIn(n))

(***************************************************************************)
(* C32. Last-matched position: the call of capture_hunk that follows a     *)
(* resolved hunk of the same file entry is given, as last-matched          *)
(* position, old-start - 1 + old-count of the resolved hunk, the 0-based   *)
(* index just past the end of its old range.                               *)
(***************************************************************************)
PastEnd(c) == c.res.header.old_start - 1 + CountIn(c.res.header.old_count)

\* call n follows call m in the same file entry, with no call between them
FollowsIn(m, n) ==
    /\ m < n
    /\ resolved[m].entry = resolved[n].entry
    /\ \A q \in (m + 1)..(n - 1) : resolved[q].entry # resolved[m].entry

C32_LastMatched ==
    \A m, n \in Calls :
        FollowsIn(m, n) /\ Placed(resolved[m]) =>
            /\ resolved[m].res.last_hunk = PastEnd(resolved[m])
            /\ resolved[n].last_hunk = PastEnd(resolved[m])

\* a hunk of two old lines is found by search on line 1; the next hunk is
\* given position 1, not 2, and is placed on line 2, inside the first hunk
C32_Failing ==
    /\ Returned
    /\ \E m, n \in Calls :
           /\ FollowsIn(m, n)
           /\ Searched(resolved[m]) /\ Placed(resolved[m])
           /\ resolved[m].res.header.old_start = 1
           /\ CountIn(resolved[m].res.header.old_count) = 2
           /\ resolved[n].last_hunk = 1
           /\ Searched(resolved[n]) /\ Placed(resolved[n])
           /\ resolved[n].res.header.old_start = 2

\* a hunk of one old line: the position handed on is the one of the claim
C32_OneLine ==
    /\ Returned
    /\ \E m, n \in Calls :
           /\ FollowsIn(m, n)
           /\ Searched(resolved[m]) /\ Placed(resolved[m])
           /\ CountIn(resolved[m].res.header.old_count) = 1
           /\ resolved[n].last_hunk = PastEnd(resolved[m])

(***************************************************************************)
(* The context pattern of a hunk, trimmed: the text of its context and     *)
(* deletion lines without the prefix, and its blank lines; the "no         *)
(* newline" marker and the addition lines are left out.                    *)
(***************************************************************************)
InPattern(line) ==
    /\ ~IsEndLine(line.s)
    /\ line.s = <<>> \/ line.s[1] \in {" ", "-"} \/ isspace(line.s)
PatternOf(hunk) ==
    [n \in 1..Len(SelectSeq(hunk, InPattern)) |->
        IF SelectSeq(hunk, InPattern)[n].s # <<>> /\ SelectSeq(hunk, InPattern)[n].s[1] = "-"
        THEN strip(Drop(SelectSeq(hunk, InPattern)[n].s, 1))
        ELSE strip(SelectSeq(hunk, InPattern)[n].s)]

\* the pattern stands in the lines from the 0-based position p on
OccursAt(pattern, lines, p) ==
    /\ p + Len(pattern) <= Len(lines)
    /\ \A j \in 1..Len(pattern) : strip(lines[p + j]) = pattern[j]
Occurrences(pattern, lines) == {p \in 0..Len(lines) : OccursAt(pattern, lines, p)}

Ascending(matches) == \A m, n \in 1..Len(matches) : m < n => matches[m] < matches[n]
Searched33 == pc = "done" /\ ~state.fuzzy
AllStarts ==
    /\ state.res.err = "none"
    /\ Ascending(state.res.matches)
    /\ {state.res.matches[n] : n \in 1..Len(state.res.matches)} =
           Occurrences(PatternOf(state.hunk_lines), state.search_lines)

(***************************************************************************)
(* C33. With fuzzy disabled, find_all_hunk_starts returns, in strictly     *)
(* ascending order, exactly the 0-based positions at which the context     *)
(* pattern of the hunk equals the searched lines line for line after       *)
(* trimming, overlapping occurrences included.  As stated, on every input. *)
(***************************************************************************)
C33_EveryInput == Searched33 => AllStarts

\* C33, amended: the same for every hunk whose context pattern is not empty;
\* for an empty pattern the call raises ValueError and returns nothing
C33_AllStarts ==
    Searched33 =>
        IF PatternOf(state.hunk_lines) # <<>> THEN AllStarts
        ELSE state.res.err = "ValueError"

\* a pattern of two lines found at 0, 1 and 2 in four lines: the occurrences overlap,
\* and the lines differ from the pattern in their white space
C33_Overlapping ==
    /\ Searched33
    /\ Len(PatternOf(state.hunk_lines)) = 2
    /\ state.res.matches = <<0, 1, 2>>
    /\ \E n \in 1..Len(state.search_lines) : state.search_lines[n] = <<" ", "a">>
    /\ \E n \in 1..Len(state.search_lines) : state.search_lines[n] = <<"a", "\n">>

\* a hunk of an addition line and the marker, with nothing to search for
C33_Failing ==
    /\ Searched33
    /\ state.hunk_lines # <<>>
    /\ PatternOf(state.hunk_lines) = <<>>
    /\ state.res.err = "ValueError"

(***************************************************************************)
(* C34. fuzzy_line_similarity returns 1.0 if and only if the two lines are *)
(* identical after trimming, and 0.0 if and only if the trimmed lines,     *)
(* not both empty, share no character or exactly one of them is empty;     *)
(* every result lies between 0 and 1.                                       *)
(***************************************************************************)
Compared == pc = "done"
Trimmed1 == strip(state.line1)
Trimmed2 == strip(state.line2)
SharesNone ==
    /\ Trimmed1 # <<>> \/ Trimmed2 # <<>>
    /\ {Trimmed1[n] : n \in 1..Len(Trimmed1)} \cap {Trimmed2[n] : n \in 1..Len(Trimmed2)} = {}
IsOne(x) == x[1] = x[2]
IsZero(x) == x[1] = 0

C34_Similarity ==
    Compared =>
        /\ state.res[2] > 0 /\ 0 <= state.res[1] /\ state.res[1] <= state.res[2]
        /\ IsOne(state.res) <=> Trimmed1 = Trimmed2
        /\ IsZero(state.res) <=> SharesNone

\* two lines of the same characters in another order: 1.0 for lines that differ
C34_Failing ==
    /\ Compared
    /\ Trimmed1 = <<"a", "b">>
    /\ Trimmed2 = <<"b", "a">>
    /\ IsOne(state.res)

\* lines with a part in common get a value strictly between 0 and 1
C34_Between ==
    /\ Compared
    /\ Trimmed1 = <<"a", "b">>
    /\ Trimmed2 = <<"a">>
    /\ state.res[1] * 3 = state.res[2] * 2

(***************************************************************************)
(* C35. The "no newline" marker lines of a hunk body do not change the     *)
(* header capture_hunk computes: the result is the one computed for the    *)
(* body with the marker lines removed.                                      *)
(***************************************************************************)
Captured == pc = "done"
IsMarker(line) == IsEndLine(line.s)
NotMarker(line) == ~IsMarker(line)
WithoutMarkers(hunk) == SelectSeq(hunk, NotMarker)
HasMarker(hunk) == \E n \in 1..Len(hunk) : IsMarker(hunk[n])

\* what capture_hunk gives for the hunk of the call with its marker lines removed
BareResult ==
    capture_hunk(WithoutMarkers(state.current_hunk), state.original_lines, state.offset,
                 state.last_hunk, state.old_header, state.fuzzy)

C35_MarkerFree ==
    Captured /\ HasMarker(state.current_hunk) /\ WithoutMarkers(state.current_hunk) # <<>> =>
        /\ state.res.err = BareResult.err
        /\ state.res.header = BareResult.header

\* two deletion lines with the marker between them, in a file that has them on
\* lines 2 and 3: placed by search at old-start 2; without the marker the hunk
\* is a deletion of the whole file, at old-start 1
C35_Failing ==
    /\ Captured
    /\ state.current_hunk = <<Text(<<"-", "a", "\n">>), Text(<<EndMarker, "\n">>),
                              Text(<<"-", "b", "\n">>)>>
    /\ state.original_lines = <<<<"b", "\n">>, <<"a", "\n">>, <<"b", "\n">>>>
    /\ state.last_hunk = 0
    /\ state.res.err = "none" /\ state.res.header.old_start = 2
    /\ BareResult.err = "none" /\ BareResult.header.old_start = 1

\* an addition line after the marker: ValueError with the marker, a creation without
C35_NoHeader ==
    /\ Captured
    /\ state.current_hunk = <<Text(<<EndMarker, "\n">>), Text(<<"+", "x", "\n">>)>>
    /\ state.res.err = "ValueError"
    /\ BareResult.err = "none" /\ BareResult.header.new_start = 1

\* the marker as the last line of the body leaves the header as it is
C35_Last ==
    /\ Captured
    /\ Len(state.current_hunk) = 3
    /\ IsMarker(state.current_hunk[3])
    /\ ~HasMarker(SubSeq(state.current_hunk, 1, 2))
    /\ state.res.err = "none"
    /\ state.res.header = BareResult.header

(***************************************************************************)
(* C36. Without fuzzy matching the second search of capture_hunk never     *)
(* gives an accepted position: a searched hunk whose pattern stands        *)
(* nowhere from the last-matched position on ends in MissingHunkError or   *)
(* OutOfOrderHunk, and every old-start returned for a searched hunk is     *)
(* strictly greater than the last-matched position the call was given.     *)
(***************************************************************************)
\* the first search of the call finds nothing
NothingAhead(c) ==
    /\ Searched(c)
    /\ ~c.fuzzy
    /\ PatternOf(c.hunk) # <<>>
    /\ \A p \in Occurrences(PatternOf(c.hunk), c.original_lines) : p < c.last_hunk

C36_SecondSearch ==
    \A n \in Calls :
        /\ NothingAhead(resolved[n]) =>
               resolved[n].res.err \in {"MissingHunkError", "OutOfOrderHunk"}
        /\ (Searched(resolved[n]) /\ ~resolved[n].fuzzy /\ Placed(resolved[n]) =>
               resolved[n].res.header.old_start > resolved[n].last_hunk)

\* the pattern stands before the last-matched position only, and that position
\* is the length of the file: the call ends in IndexError
C36_Failing ==
    \E n \in Calls :
        /\ NothingAhead(resolved[n])
        /\ Occurrences(PatternOf(resolved[n].hunk), resolved[n].original_lines) # {}
        /\ resolved[n].last_hunk = Len(resolved[n].original_lines)
        /\ resolved[n].res.err = "IndexError"

\* the same with a line left after the last-matched position: OutOfOrderHunk
C36_OutOfOrder ==
    \E n \in Calls :
        /\ NothingAhead(resolved[n])
        /\ Occurrences(PatternOf(resolved[n].hunk), resolved[n].original_lines) # {}
        /\ resolved[n].last_hunk < Len(resolved[n].original_lines)
        /\ resolved[n].res.err = "OutOfOrderHunk"

(***************************************************************************)
(* C37. For every hunk located by search, the old-count of the header is   *)
(* the number of lines of the context pattern that was compared with the   *)
(* reference, also when the body holds blank or whitespace-only lines.     *)
(***************************************************************************)
HunkLen(hunk) ==
    IF hunk # <<>> /\ IsMarker(hunk[Len(hunk)]) THEN Len(hunk) - 1 ELSE Len(hunk)
LocatedBySearch ==
    /\ Captured
    /\ state.res.err = "none"
    /\ Tagged(state.current_hunk, {"-"}) # HunkLen(state.current_hunk)
    /\ Tagged(state.current_hunk, {"+"}) # HunkLen(state.current_hunk)

C37_OldRange ==
    LocatedBySearch =>
        CountIn(state.res.header.old_count) = Len(PatternOf(state.current_hunk))

\* a context line and a blank line, compared with two lines of the reference:
\* placed on line 1 with old-count 1
C37_Failing ==
    /\ LocatedBySearch
    /\ state.current_hunk = <<Text(<<" ", "a", "\n">>), Text(<<"\n">>)>>
    /\ state.original_lines = <<<<"a", "\n">>, <<"\n">>>>
    /\ PatternOf(state.current_hunk) = <<<<"a">>, <<>>>>
    /\ state.res.header.old_start = 1
    /\ CountIn(state.res.header.old_count) = 1

\* without a blank line the old-count is the length of the pattern
C37_NoBlank ==
    /\ LocatedBySearch
    /\ state.current_hunk = <<Text(<<" ", "a", "\n">>), Text(<<"-", "b", "\n">>),
                              Text(<<"+", "x", "\n">>)>>
    /\ CountIn(state.res.header.old_count) = 2
    /\ Len(PatternOf(state.current_hunk)) = 2

(***************************************************************************)
(* C38. The body put out under a corrected hunk header is made of the      *)
(* input lines that stand between that hunk's header and the next hunk     *)
(* header, diff line or end of the input, and of no other line ("no        *)
(* newline" markers left out when add_newline is set): a line that stands  *)
(* before the hunk header in the input is not part of the body.            *)
(***************************************************************************)
\* the lines of the input after the header at h that belong to its body
InputBody(h) ==
    SelectSeq(BodyOf(patch_lines, h), LAMBDA l : ~(opts.add_newline /\ IsEndLine(l.s)))

C38_BodyOnly ==
    Returned =>
        /\ Cardinality(HunksOf(Output)) <= Cardinality(HunksOf(patch_lines))
        /\ \A k \in 1..Cardinality(HunksOf(Output)) :
               ContentOf(BodyOf(Output, Nth(HunksOf(Output), k))) =
                   ContentOf(InputBody(Nth(HunksOf(patch_lines), k)))

\* "+++ f", which is no file header, stands before the hunk header; it is put
\* out under the corrected header, ahead of the addition line, and counted
C38_Failing ==
    /\ Returned
    /\ patch_lines = <<DiffLine(NameF, NameF), FileEnd(NameF), HunkHeader(0),
                       Text(<<"+", "x", "\n">>)>>
    /\ \E h \in HunksOf(Output) :
           /\ ContentOf(BodyOf(Output, h)) = <<<<"+", "+", "+", " ", "f">>, <<"+", "x">>>>
           /\ CountIn(Output[h].new_count) = 2

\* with the file headers in place the body is the one of the input
C38_Body ==
    /\ Returned
    /\ patch_lines = <<DiffLine(NameF, NameF), FileStart(a_path(NameF)), FileEnd(b_path(NameF)),
                       HunkHeader(0), Text(<<" ", "a", "\n">>), Text(<<"+", "x", "\n">>)>>
    /\ \E h \in HunksOf(Output) :
           ContentOf(BodyOf(Output, h)) = <<<<" ", "a">>, <<"+", "x">>>>

(***************************************************************************)
(* C39. Output order follows input order, whatever add_newline is: the     *)
(* lines put out for the content lines of the input (the "no newline"      *)
(* marker among them) stand in the order of the input, and on the same     *)
(* side of the hunk header as in the input; nothing that comes from a line *)
(* of a hunk body stands ahead of the corrected header of its hunk.        *)
(***************************************************************************)
\* the lines of the input that are handled as content, and the lines put out for them
ContentIn == {j \in 1..Len(patch_lines) : match_line(patch_lines[j]).type \in {"None", "END_LINE"}}
ContentOut == OutputAt("text")
OneHunk == Cardinality(HunksOf(patch_lines)) = 1 /\ Cardinality(HunksOf(Output)) = 1
HeaderIn == Nth(HunksOf(patch_lines), 1)
HeaderOut == Nth(HunksOf(Output), 1)

C39_InputOrder ==
    Returned /\ OneHunk =>
        /\ Cardinality(ContentOut) = Cardinality(ContentIn)
        /\ \A k \in 1..Cardinality(ContentOut) :
               Nth(ContentIn, k) > HeaderIn <=> Nth(ContentOut, k) > HeaderOut

\* add_newline set: the line feed put out for the marker that ends the body
\* stands ahead of the hunk header, the body after it
C39_Failing ==
    /\ Returned
    /\ opts.add_newline
    /\ patch_lines = <<DiffLine(NameF, NameF), FileStart(a_path(NameF)), FileEnd(b_path(NameF)),
                       HunkHeader(0), Text(<<" ", "a", "\n">>), Text(<<EndMarker, "\n">>)>>
    /\ Len(Output) = 6
    /\ Output[4] = Text(<<"\n">>)
    /\ Output[5].k = "hunk"
    /\ Output[6] = Text(<<" ", "a", "\n">>)

\* add_newline not set: the marker stays in the body, in its place
C39_InPlace ==
    /\ Returned
    /\ ~opts.add_newline
    /\ patch_lines = <<DiffLine(NameF, NameF), FileStart(a_path(NameF)), FileEnd(b_path(NameF)),
                       HunkHeader(0), Text(<<" ", "a", "\n">>), Text(<<EndMarker, "\n">>)>>
    /\ Len(Output) = 6
    /\ Output[4].k = "hunk"
    /\ Output[5] = Text(<<" ", "a", "\n">>)
    /\ IsEndLine(Output[6].s)

(***************************************************************************)
(* C40. With fuzzy=True every hunk of the patch is resolved with fuzzy     *)
(* matching: the result of its call of capture_hunk is the one fuzzy       *)
(* resolution gives, whether the hunk is closed by another hunk header, by *)
(* the diff line of the next file entry or by the end of the input.        *)
(***************************************************************************)
FuzzyResult(c) ==
    capture_hunk(c.hunk, c.original_lines, c.offset, c.last_hunk, c.old_header, TRUE)

C40_FuzzyEverywhere ==
    opts.fuzzy =>
        \A n \in Calls : resolved[n].res = FuzzyResult(resolved[n])

\* a hunk whose context stands nowhere exactly, closed by the diff line of the
\* next entry: not found, where fuzzy resolution places it
C40_Failing ==
    /\ pc = "raised" /\ err = "MissingHunkError"
    /\ opts.fuzzy
    /\ \E n \in Calls :
           /\ resolved[n].site = "diff"
           /\ ~resolved[n].fuzzy
           /\ resolved[n].res.err = "MissingHunkError"
           /\ FuzzyResult(resolved[n]).err = "none"

\* the same hunk closed by the end of the input is placed by fuzzy matching
C40_AtEnd ==
    /\ Returned
    /\ opts.fuzzy
    /\ \E n \in Calls :
           /\ resolved[n].site = "end"
           /\ FuzzySearched(resolved[n])
           /\ ExactIn(resolved[n]) = {}
           /\ Placed(resolved[n])

\* and so is one closed by another hunk header
C40_AtHeader ==
    /\ opts.fuzzy
    /\ \E n \in Calls :
           /\ resolved[n].site = "hunk"
           /\ FuzzySearched(resolved[n])
           /\ ExactIn(resolved[n]) = {}
           /\ Placed(resolved[n])

=============================================================================
